---- MODULE Spec2Model ----
(***************************************************************************)
(* Peer-to-peer networking core of the node: the PeerBook state machine    *)
(* (network/src/peers/peer_book.rs, peer_info.rs), the connection manager  *)
(* (network/src/peers/peers.rs) and the inbound dispatcher                 *)
(* (network/src/lib.rs).                                                   *)
(***************************************************************************)
EXTENDS Integers, Sequences, FiniteSets, TLC

\* ------------------------------------------------------------------ bounds

\* Wall-clock readings (Utc::now / Instant::now) are 1..MaxTime; 0 is None.
MaxTime == 2
\* PeerInfo.connected_count is a u64; set_connected is explored up to this.
MaxConnects == 2
\* Largest number of hashes carried by one Sync message.
MaxSync == 2
\* How far below zero (mod 2^32) remaining_sync_blocks is followed.
MaxUnderflow == 1
\* PeerQuality.num_messages_received is a u64; messages of one peer are
\* dispatched up to this count.
MaxMessages == 4
\* PeerQuality.failures is an AtomicU32; failures of one peer are followed up
\* to this count.
MaxFailures == 3
\* Node.config: the minimum and maximum number of connected peers range up to
\* these.
MaxMinPeers == 1
MaxMaxPeers == 3

\* Connections a peer makes with the node while the maintenance loop is observed.
MaxSessions == 1
\* Concurrent callers of Node::set_connected / Node::disconnect_from_peer,
\* each making one call.
NumProcs == 3
\* The capacity of the inbound channel where messages queue up.
MaxQueue == 2
\* The nodes of a crawled network: addresses 1..MaxNodes.
MaxNodes == 3
\* Messages of remote peers that the dispatcher is observed to handle.
MaxInbound == 2
\* The block heights the sync layer reports and Pings announce: 0..MaxHeight.
MaxHeight == 2
\* How far above the size of its map a gauge is followed.
MaxDrift == 2

\* --------------------------------------------------------------- constants

\* remaining_sync_blocks is an AtomicU32. A u32 is kept as two 16-bit limbs,
\* [hi, lo] standing for hi * 2^16 + lo, so that it wraps exactly at 2^32.
Limb == 65536

U32_from(n) == [hi |-> (n \div Limb) % Limb, lo |-> n % Limb]

U32_sub1(x) ==
    IF x.lo > 0 THEN [x EXCEPT !.lo = @ - 1]
    ELSE IF x.hi > 0 THEN [hi |-> x.hi - 1, lo |-> Limb - 1]
    ELSE [hi |-> Limb - 1, lo |-> Limb - 1]

U32_leq(x, y) == x.hi < y.hi \/ (x.hi = y.hi /\ x.lo <= y.lo)

None == 0

\* Two socket addresses, so that a remote socket and a different listener
\* address (and an address other than the one an operation names) exist.
\* Address 1 is 127.0.0.1:4031, the loopback address of the unit tests;
\* address 2 is not a loopback address.
Addr == {1, 2}

\* The socket address the node listens on, and the loopback address with the
\* node's own port (127.0.0.1:<own port>). The maintenance loop runs over
\* NodeAddr; addresses 1 and 2 are the remote peers that can be reached.
OwnAddress == 3

OwnLoopback == 4

NodeAddr == Addr \cup {OwnAddress, OwnLoopback}

IsLoopback(a) == a \in {1, OwnLoopback}

Time == 1..MaxTime

\* -------------------------------------------------------------------- state

VARIABLES
    connecting_peers,     \* PeerBook.connecting_peers: HashSet<SocketAddr>
    connected_peers,      \* PeerBook.connected_peers: HashMap<SocketAddr, PeerInfo>
    disconnected_peers,   \* PeerBook.disconnected_peers: HashMap<SocketAddr, PeerInfo>
    now,                  \* the latest clock reading
    last,                 \* the last completed call: operation, arguments, result
    is_bootnode,          \* Environment::is_bootnode of this node
    sync_hist             \* per peer, since its last accepted Sync: the count it
                          \* announced, the SyncBlocks dispatched, those consensus
                          \* accepted, and the finished_syncing_blocks signals

VARIABLES
    channels,             \* Node.outbound.channels: listener address -> Sender
    procs,                \* the concurrent callers: position, arguments, locals
    task_state            \* the reader and writer task spawned by each caller

VARIABLES
    config,               \* Node.config: bootnodes, peer limits; the local address
    dials,                \* the connection attempts spawned by the maintenance loop
    tick,                 \* what the update_peers run just completed read, computed
                          \* and started; cleared by the next step
    storage               \* the serialized peer book held by the storage object

VARIABLES
    sync,                 \* Node.sync: whether the sync layer is attached, and the
                          \* block height its storage reports
    inbound,              \* the messages in the shared inbound channel, oldest first
    effects,              \* what the dispatcher loop's step just completed returned,
                          \* submitted to the outbound router and called on the
                          \* sync layer, in order; cleared by the next step
    topology,             \* Node.network_topology, when the node tracks it:
                          \* NetworkTopology.connections
    metrics               \* the NetworkMetrics last computed: node_count,
                          \* connection_count, density

VARIABLES
    gauges,               \* the gauges CONNECTIONS_CONNECTING, CONNECTIONS_CONNECTED
                          \* and CONNECTIONS_DISCONNECTED of the metrics recorder
    handles               \* per peer, the reader and the writer task of its
                          \* connection and the detached task that awaits the
                          \* writer after a disconnect

vars == <<connecting_peers, connected_peers, disconnected_peers, now, last,
          is_bootnode, sync_hist, channels, procs, task_state,
          config, dials, tick, storage, sync, inbound, effects, topology, metrics,
          gauges, handles>>

\* The sync layer, the inbound channel, the topology tracker, the gauges and
\* the per-connection tasks.
net_vars == <<sync, inbound, effects, topology, metrics, gauges, handles>>

\* The node's environment and maintenance state.
env_vars == <<is_bootnode, config, dials, tick, storage, net_vars>>

book_vars == <<connecting_peers, connected_peers, disconnected_peers>>

\* ------------------------------------------------------------ HashMap model

MapRemove(m, k) == [x \in DOMAIN m \ {k} |-> m[x]]

MapInsert(m, k, v) == [x \in DOMAIN m \cup {k} |-> IF x = k THEN v ELSE m[x]]

EmptyMap == [x \in {} |-> None]

\* ---------------------------------------------------------------- PeerInfo

PeerQuality_default ==
    [ block_height          |-> 0,
      last_seen             |-> None,
      expecting_pong        |-> FALSE,
      last_ping_sent        |-> None,
      rtt_ms                |-> 0,
      failures              |-> 0,
      remaining_sync_blocks |-> U32_from(0),
      num_messages_received |-> 0 ]

\* `quality` and `tasks` are Arcs: clones of a record share them. `arc` names
\* the allocation (0: made by a sequential call; p: made by caller p), so that
\* a clone held by a task can be told from a newer record of the same address.
PeerInfo_new(address) ==
    [ address           |-> address,
      is_routable       |-> TRUE,
      first_connected   |-> None,
      last_connected    |-> None,
      last_disconnected |-> None,
      connected_count   |-> 0,
      quality           |-> PeerQuality_default,
      tasks             |-> << >>,
      arc               |-> 0 ]

PeerInfo_set_connected(info, t) ==
    [ info EXCEPT
        !.first_connected   = IF @ = None THEN t ELSE @,
        !.last_connected    = t,
        !.quality.last_seen = t,
        !.connected_count   = @ + 1 ]

\* The drained task handles are aborted or handed to a detached joiner; the
\* record keeps none of them.
PeerInfo_set_disconnected(info, t) ==
    [ info EXCEPT
        !.last_disconnected             = t,
        !.quality.expecting_pong        = FALSE,
        !.quality.remaining_sync_blocks = U32_from(0),
        !.tasks                         = << >> ]

PeerInfo_set_is_routable(info, routable) == [info EXCEPT !.is_routable = routable]

\* ---------------------------------------------------------------- PeerBook

Book == [ connecting   |-> connecting_peers,
          connected    |-> connected_peers,
          disconnected |-> disconnected_peers ]

is_connecting(b, address) == address \in b.connecting

is_connected(b, address) == address \in DOMAIN b.connected

is_disconnected(b, address) == address \in DOMAIN b.disconnected

\* set_connecting without its is_connected check.
Mutant_set_connecting_unchecked(b, address) ==
    [book |-> [b EXCEPT !.connecting = @ \cup {address}], ret |-> "Ok"]

PeerBook_set_connecting(b, address) ==
    IF is_connected(b, address)
    THEN [book |-> b, ret |-> "PeerAlreadyConnected"]
    ELSE [book |-> [b EXCEPT !.connecting = @ \cup {address}], ret |-> "Ok"]

Listener(address, listener) == IF listener # None THEN listener ELSE address

\* set_connected that inserts the record and forgets to take it out of the
\* disconnected map.
Mutant_set_connected_keeps_disconnected(b, address, listener_opt, t) ==
    LET listener  == Listener(address, listener_opt)
        peer_info == IF listener \in DOMAIN b.disconnected
                     THEN b.disconnected[listener]
                     ELSE PeerInfo_new(listener)
    IN  [book |-> [ connecting   |-> b.connecting \ {address},
                    connected    |-> MapInsert(b.connected, listener,
                                               PeerInfo_set_connected(peer_info, t)),
                    disconnected |-> b.disconnected ],
         ret  |-> "unit"]

\* set_connected that always starts from a fresh record.
Mutant_set_connected_always_fresh(b, address, listener_opt, t) ==
    LET listener == Listener(address, listener_opt)
    IN  [book |-> [ connecting   |-> b.connecting \ {address},
                    connected    |-> MapInsert(b.connected, listener,
                                        PeerInfo_set_connected(PeerInfo_new(listener), t)),
                    disconnected |-> MapRemove(b.disconnected, listener) ],
         ret  |-> "unit"]

PeerBook_set_connected(b, address, listener_opt, t) ==
    LET listener  == Listener(address, listener_opt)
        peer_info == IF listener \in DOMAIN b.disconnected
                     THEN b.disconnected[listener]
                     ELSE PeerInfo_new(listener)
    IN  [book |-> [ connecting   |-> b.connecting \ {address},
                    connected    |-> MapInsert(b.connected, listener,
                                               PeerInfo_set_connected(peer_info, t)),
                    disconnected |-> MapRemove(b.disconnected, listener) ],
         ret  |-> "unit"]

PeerBook_set_disconnected(b, address, t) ==
    IF address \in b.connecting
    THEN [book |-> [b EXCEPT !.connecting = @ \ {address}], ret |-> "false"]
    ELSE IF address \in DOMAIN b.connected
    THEN [book |-> [b EXCEPT
                      !.connected    = MapRemove(@, address),
                      !.disconnected = MapInsert(@, address,
                          PeerInfo_set_disconnected(b.connected[address], t))],
          ret  |-> "true"]
    ELSE [book |-> b, ret |-> "false"]

PeerBook_set_unroutable(b, address) ==
    IF address \in DOMAIN b.disconnected
    THEN [book |-> [b EXCEPT !.disconnected[address] =
                                 PeerInfo_set_is_routable(@, FALSE)],
          ret  |-> "unit"]
    ELSE [book |-> b, ret |-> "unit"]

\* add_peer that does not look at the connecting set.
Mutant_add_peer_ignores_connecting(b, address) ==
    IF address \in DOMAIN b.connected \/ address \in DOMAIN b.disconnected
    THEN [book |-> b, ret |-> "unit"]
    ELSE [book |-> [b EXCEPT !.disconnected =
                                 MapInsert(@, address, PeerInfo_new(address))],
          ret  |-> "unit"]

PeerBook_add_peer(b, address) ==
    IF is_connected(b, address) \/ is_disconnected(b, address) \/ is_connecting(b, address)
    THEN [book |-> b, ret |-> "unit"]
    ELSE [book |-> [b EXCEPT !.disconnected =
                                 MapInsert(@, address, PeerInfo_new(address))],
          ret  |-> "unit"]

PeerBook_remove_peer(b, address, t) ==
    LET b1 == PeerBook_set_disconnected(b, address, t).book
    IN  [book |-> [b1 EXCEPT !.disconnected = MapRemove(@, address)],
         ret  |-> "unit"]

\* PeerBook::peer_quality: the quality block of a connected peer, if any.
HasQuality(b, addr) == addr \in DOMAIN b.connected

PeerBook_sending_ping(b, target, t) ==
    IF HasQuality(b, target)
    THEN [book |-> [b EXCEPT !.connected[target].quality.last_ping_sent = t,
                             !.connected[target].quality.expecting_pong = TRUE],
          ret  |-> "unit"]
    ELSE [book |-> b, ret |-> "unit"]

PeerBook_expecting_sync_blocks(b, addr, count) ==
    IF HasQuality(b, addr)
    THEN [book |-> [b EXCEPT !.connected[addr].quality.remaining_sync_blocks =
                                 U32_from(count)],
          ret  |-> "true"]
    ELSE [book |-> b, ret |-> "false"]

\* got_sync_block that reports the end of the batch one block early.
Mutant_got_sync_block_early(b, addr) ==
    IF HasQuality(b, addr)
    THEN LET prev == b.connected[addr].quality.remaining_sync_blocks
         IN  [book |-> [b EXCEPT !.connected[addr].quality.remaining_sync_blocks =
                                     U32_sub1(prev)],
              ret  |-> IF prev = U32_from(2) THEN "true" ELSE "false"]
    ELSE [book |-> b, ret |-> "false"]

\* fetch_sub(1) returns the previous value and wraps below zero.
PeerBook_got_sync_block(b, addr) ==
    IF HasQuality(b, addr)
    THEN LET prev == b.connected[addr].quality.remaining_sync_blocks
         IN  [book |-> [b EXCEPT !.connected[addr].quality.remaining_sync_blocks =
                                     U32_sub1(prev)],
              ret  |-> IF prev = U32_from(1) THEN "true" ELSE "false"]
    ELSE [book |-> b, ret |-> "false"]

PeerBook_register_message(b, addr, t) ==
    IF HasQuality(b, addr)
    THEN [book |-> [b EXCEPT !.connected[addr].quality.last_seen = t,
                             !.connected[addr].quality.num_messages_received = @ + 1],
          ret  |-> "unit"]
    ELSE [book |-> b, ret |-> "unit"]

\* --------------------------------------------------- quality and maintenance

\* A peer is dropped for inactivity when it was last seen more than this many
\* seconds ago.
MAX_PEER_INACTIVITY_SECS == 30

\* The clock is read once a minute: two different readings are 60 seconds,
\* or 60000 ms, apart.
SecsPerReading == 2 * MAX_PEER_INACTIVITY_SECS

Elapsed_ms(since, t) == (t - since) * SecsPerReading * 1000

PeerQuality_is_inactive(quality, t) ==
    IF quality.last_seen # None
    THEN (t - quality.last_seen) * SecsPerReading > MAX_PEER_INACTIVITY_SECS
    ELSE TRUE

\* received_pong that takes every pong for the answer to a ping.
Mutant_received_pong_always_expected(b, source, t) ==
    IF HasQuality(b, source)
    THEN [book |-> [b EXCEPT
                      !.connected[source].quality.rtt_ms =
                          Elapsed_ms(b.connected[source].quality.last_ping_sent, t),
                      !.connected[source].quality.expecting_pong = FALSE],
          ret  |-> "unit"]
    ELSE [book |-> b, ret |-> "unit"]

PeerBook_received_pong(b, source, t) ==
    IF HasQuality(b, source)
    THEN IF b.connected[source].quality.expecting_pong
         THEN [book |-> [b EXCEPT
                           !.connected[source].quality.rtt_ms =
                               Elapsed_ms(b.connected[source].quality.last_ping_sent, t),
                           !.connected[source].quality.expecting_pong = FALSE],
               ret  |-> "unit"]
         ELSE [book |-> [b EXCEPT !.connected[source].quality.failures = @ + 1],
               ret  |-> "unit"]
    ELSE [book |-> b, ret |-> "unit"]

PeerBook_register_failure(b, addr) ==
    IF HasQuality(b, addr)
    THEN [book |-> [b EXCEPT !.connected[addr].quality.failures = @ + 1], ret |-> "unit"]
    ELSE [book |-> b, ret |-> "unit"]

\* The part of the node the maintenance loop works on.
NodeState == [book |-> Book, channels |-> channels]

Node_disconnect_from_peer(st, remote_address, t) ==
    LET r == PeerBook_set_disconnected(st.book, remote_address, t)
    IN  [book     |-> r.book,
         channels |-> IF r.ret = "true"
                      THEN MapRemove(st.channels, remote_address)
                      ELSE st.channels]

\* Node::set_connected run from its first to its last line by one caller;
\* the two tasks it spawns end up registered on the stored record.
Node_set_connected(st, remote_address, remote_listener, t) ==
    IF is_connected(st.book, remote_listener)
    THEN [st |-> st, ret |-> "PeerAlreadyConnected"]
    ELSE LET b == PeerBook_set_connected(st.book, remote_address, remote_listener, t).book
         IN  [st  |-> [book |-> [b EXCEPT !.connected[remote_listener].tasks =
                                     << [owner |-> 0, kind |-> "reader", abortable |-> TRUE],
                                        [owner |-> 0, kind |-> "writer", abortable |-> FALSE] >>],
                       channels |-> MapInsert(st.channels, remote_listener, 0)],
              ret |-> "Ok"]

RECURSIVE DisconnectEach(_, _, _)
\* disconnect_from_peer called for every address of a set, one after another.
DisconnectEach(st, addrs, t) ==
    IF addrs = {} THEN st
    ELSE LET a == CHOOSE x \in addrs : TRUE
         IN  DisconnectEach(Node_disconnect_from_peer(st, a, t), addrs \ {a}, t)

RECURSIVE PingEach(_, _, _)
\* broadcast_pings: sending_ping for every connected peer.
PingEach(b, addrs, t) ==
    IF addrs = {} THEN b
    ELSE LET a == CHOOSE x \in addrs : TRUE
         IN  PingEach(PeerBook_sending_ping(b, a, t).book, addrs \ {a}, t)

\* --- messages

Inbound(a) == [kind |-> "Inbound", addr |-> a]

Outbound(a) == [kind |-> "Outbound", addr |-> a]

Internal == [kind |-> "Internal", addr |-> None]

\* A payload: its variant, the number it carries (a block height, an address or
\* the identity of a block) and the addresses it lists.
Payload(name, n, peers) == [name |-> name, n |-> n, listener |-> None, peers |-> peers]

ConnectedTo(remote_address, remote_listener) ==
    [Payload("ConnectedTo", remote_address, {}) EXCEPT !.listener = remote_listener]

NoPayload == Payload("none", None, {})

Ping(block_height) == Payload("Ping", block_height, {})

Message_new(direction, payload) == [direction |-> direction, payload |-> payload]

NoMessage == Message_new(Internal, NoPayload)

\* The messages a loop over the peers in addrs submits with send_request.
RECURSIVE RequestEach(_, _)
RequestEach(addrs, payload) ==
    IF addrs = {} THEN << >>
    ELSE LET a == CHOOSE x \in addrs : TRUE
         IN  << Message_new(Outbound(a), payload) >> \o RequestEach(addrs \ {a}, payload)

\* Node::broadcast_getpeers_requests: the messages it submits.
Node_broadcast_getpeers_requests(b, cfg, bootnode) ==
    IF /\ ~bootnode
       /\ Cardinality(DOMAIN b.connected) + Cardinality(b.connecting) >= cfg.min_peers
    THEN << >>
    ELSE RequestEach(DOMAIN b.connected, Payload("GetPeers", None, {}))

\* A broadcast that records no ping.
Mutant_broadcast_pings_unrecorded(b, sy, t) ==
    [book |-> b,
     requests |-> RequestEach(DOMAIN b.connected,
                              Ping(IF sy.attached THEN sy.current_block_height ELSE 0))]

\* Node::broadcast_pings: the peer book it leaves and the messages it submits.
Node_broadcast_pings(b, sy, t) ==
    LET current_block_height == IF sy.attached THEN sy.current_block_height ELSE 0
        peers == DOMAIN b.connected
    IN  [book |-> PingEach(b, peers, t),
         requests |-> RequestEach(peers, Ping(current_block_height))]

SaturatingSub(x, y) == IF x > y THEN x - y ELSE 0

\* The quality pass of update_peers: the connected peers it disconnects from.
LowQuality(b, bootnodes, t) ==
    { a \in DOMAIN b.connected :
        /\ a \notin bootnodes
        /\ \/ b.connected[a].quality.rtt_ms > 1500
           \/ b.connected[a].quality.failures >= 3
           \/ PeerQuality_is_inactive(b.connected[a].quality, t) }

\* The counts of update_peers with a regular node that looks at its connected
\* peers only.
Mutant_PeerCounts_ignores_connecting(bootnode, min_peers, max_peers, connected, connecting) ==
    IF bootnode
    THEN [disconnect |-> SaturatingSub(connected, min_peers),
          connect    |-> SaturatingSub(max_peers, 2 * min_peers)]
    ELSE [disconnect |-> SaturatingSub(connected, max_peers),
          connect    |-> SaturatingSub(min_peers, connected)]

\* (number_to_disconnect, number_to_connect) of update_peers.
\* The counts of update_peers with a regular node that trims its connected
\* peers down to min_peers, as a bootnode does.
Mutant_PeerCounts_trims_to_min(bootnode, min_peers, max_peers, connected, connecting) ==
    [disconnect |-> SaturatingSub(connected, min_peers),
     connect    |-> IF bootnode
                    THEN SaturatingSub(max_peers, 2 * min_peers)
                    ELSE SaturatingSub(min_peers, connected + connecting)]

PeerCounts(bootnode, min_peers, max_peers, connected, connecting) ==
    IF bootnode
    THEN [disconnect |-> SaturatingSub(connected, min_peers),
          connect    |-> SaturatingSub(max_peers, 2 * min_peers)]
    ELSE [disconnect |-> SaturatingSub(connected, max_peers),
          connect    |-> SaturatingSub(min_peers, connected + connecting)]

Min(x, y) == IF x < y THEN x ELSE y

\* What `number` pops off the list of connected peers can take: any peers on
\* a bootnode, the most recently connected ones on a regular node (the sort
\* is unstable, peers connected at the same instant come in any order).
Pops(b, bootnode, number) ==
    { D \in SUBSET DOMAIN b.connected :
        /\ Cardinality(D) = Min(number, Cardinality(DOMAIN b.connected))
        /\ bootnode \/ \A d \in D, x \in DOMAIN b.connected \ D :
                           b.connected[d].last_connected >= b.connected[x].last_connected }

\* connect_to_bootnodes without the filter on the own address.
Mutant_BootnodeTargets_with_own(cfg) == cfg.bootnodes

\* connect_to_bootnodes: the addresses it spawns a connection attempt for.
BootnodeTargets(cfg) == cfg.bootnodes \ {cfg.own_address}

\* connect_to_disconnected_peers: the samples choose_multiple can return.
PeerSamples(b, cfg, count) ==
    LET candidates == (DOMAIN b.disconnected \ {cfg.own_address}) \ cfg.bootnodes
    IN  { S \in SUBSET candidates : Cardinality(S) = Min(count, Cardinality(candidates)) }

\* ------------------------------------------------------------ initial state

\* A record as PeerBook::load restores it: quality and tasks are not
\* serialized and come back as their defaults.
LoadedInfos(a) ==
    { [PeerInfo_new(a) EXCEPT !.is_routable = r] : r \in BOOLEAN }
    \cup
    { [PeerInfo_new(a) EXCEPT !.is_routable = r, !.first_connected = 1,
                              !.last_connected = 1, !.last_disconnected = 1,
                              !.connected_count = 1] : r \in BOOLEAN }

IsLoadedMap(m) == \A a \in DOMAIN m : ~IsLoopback(a) /\ m[a] \in LoadedInfos(a)

LoadedMaps ==
    UNION { { m \in [S -> UNION { LoadedInfos(a) : a \in S }] : IsLoadedMap(m) }
            : S \in SUBSET { a \in Addr : ~IsLoopback(a) } }

NoCall == [op |-> "none", addr |-> None, arg |-> None, ret |-> "unit"]

Call(op, addr, arg, ret) == [op |-> op, addr |-> addr, arg |-> arg, ret |-> ret]

NoSyncHist == [a \in Addr |-> [expected |-> 0, blocks |-> 0, accepted |-> 0, signals |-> 0]]

Proc == 1..NumProcs

TaskKind == {"reader", "writer"}

IdleProc == [pc |-> "idle", op |-> "none", addr |-> None, lst |-> None,
             info |-> << >>, ref |-> None, ret |-> "none"]

\* Node.config as far as peer maintenance reads it.
NoConfig == [bootnodes |-> {}, min_peers |-> 1, max_peers |-> 1,
             own_address |-> OwnAddress]

DialKind == {"bootnode", "peer"}

\* A connection attempt: where its task is and whether its deadline has passed.
IdleDial == [pc |-> "idle", timed_out |-> FALSE]

NoDials == [a \in NodeAddr |-> [k \in DialKind |-> IdleDial]]

NoTick == [kept |-> {}, number_of_connected_peers |-> 0,
           number_of_connecting_peers |-> 0, number_to_disconnect |-> 0,
           number_to_connect |-> 0, dropped |-> {}, bootnode_dials |-> {},
           peer_dials |-> {}, pinged |-> {}, requests |-> << >>]

NoStorage == << >>

\* No sync layer attached.
NoSync == [attached |-> FALSE, current_block_height |-> 0]

\* Nothing handled yet.
NoEffects == [message |-> NoMessage, ret |-> "none", out |-> << >>]

\* The inbound channel: what is queued, whether every sender is gone, and
\* whether the dispatcher task still holds the receiver.
NoInbound == [queue |-> << >>, closed |-> FALSE, receiver |-> "held"]

\* The node does not track the network topology.
NoTopology == [tracked |-> FALSE, connections |-> {}]

\* An f64 that is not NaN or infinite is kept as its sign bit and the exact
\* magnitude num / den; the values computed here are quotients of small
\* integers, whose rounding preserves their order with 0 and 1.
F64_from(k) == [kind |-> "finite", neg |-> FALSE, num |-> k, den |-> 1]

\* No metrics computed yet.
NoMetrics == [node_count |-> 0, connection_count |-> 0, density |-> F64_from(0)]

\* Every gauge of the recorder starts at 0.
NoGauges == [connecting |-> 0, connected |-> 0, disconnected |-> 0]

\* No connection has spawned a task yet.
NoHandle == [reader |-> "none", writer |-> "none", waiter |-> "none", waited |-> 0]

NoHandles == [a \in Addr |-> NoHandle]

\* A node without sync layer and topology tracker, nothing received yet.
InitNet ==
    /\ sync = NoSync
    /\ inbound = NoInbound
    /\ effects = NoEffects
    /\ topology = NoTopology
    /\ metrics = NoMetrics
    /\ gauges = NoGauges
    /\ handles = NoHandles

conc_vars == <<channels, procs, task_state>>

node_vars == <<env_vars, sync_hist, channels, procs, task_state>>

InitConc ==
    /\ channels = EmptyMap
    /\ procs = [p \in Proc |-> IdleProc]
    /\ task_state = [p \in Proc |-> [k \in TaskKind |-> "none"]]
    /\ config = NoConfig
    /\ dials = NoDials
    /\ tick = NoTick
    /\ storage = NoStorage
    /\ InitNet

Init ==
    /\ connecting_peers = {}
    /\ connected_peers = EmptyMap
    /\ disconnected_peers \in LoadedMaps
    /\ now = 1
    /\ last = NoCall
    /\ is_bootnode = FALSE
    /\ sync_hist = NoSyncHist
    /\ InitConc

\* ------------------------------------------------------------------ actions

SetBook(b) ==
    /\ connecting_peers' = b.connecting
    /\ connected_peers' = b.connected
    /\ disconnected_peers' = b.disconnected

\* A clock reading taken by an operation: time never runs backwards.
Clock(t) == t \in now..MaxTime /\ now' = t

set_connecting(a) ==
    LET r == PeerBook_set_connecting(Book, a)
    IN  /\ SetBook(r.book)
        /\ last' = Call("set_connecting", a, None, r.ret)
        /\ UNCHANGED <<now, node_vars>>

set_connected(a, l) ==
    \E t \in Time :
        LET r == PeerBook_set_connected(Book, a, l, t)
        IN  /\ Clock(t)
            /\ Listener(a, l) \in DOMAIN disconnected_peers
                  => disconnected_peers[Listener(a, l)].connected_count < MaxConnects
            /\ SetBook(r.book)
            /\ last' = Call("set_connected", a, l, r.ret)
            /\ UNCHANGED node_vars

set_disconnected(a) ==
    \E t \in Time :
        LET r == PeerBook_set_disconnected(Book, a, t)
        IN  /\ Clock(t)
            /\ SetBook(r.book)
            /\ last' = Call("set_disconnected", a, None, r.ret)
            /\ UNCHANGED node_vars

set_unroutable(a) ==
    LET r == PeerBook_set_unroutable(Book, a)
    IN  /\ SetBook(r.book)
        /\ last' = Call("set_unroutable", a, None, r.ret)
        /\ UNCHANGED <<now, node_vars>>

add_peer(a) ==
    LET r == PeerBook_add_peer(Book, a)
    IN  /\ SetBook(r.book)
        /\ last' = Call("add_peer", a, None, r.ret)
        /\ UNCHANGED <<now, node_vars>>

remove_peer(a) ==
    \E t \in Time :
        LET r == PeerBook_remove_peer(Book, a, t)
        IN  /\ Clock(t)
            /\ SetBook(r.book)
            /\ last' = Call("remove_peer", a, None, r.ret)
            /\ UNCHANGED node_vars

Next ==
    \/ \E a \in Addr : set_connecting(a)
    \/ \E a \in Addr, l \in Addr \cup {None} : set_connected(a, l)
    \/ \E a \in Addr : set_disconnected(a)
    \/ \E a \in Addr : set_unroutable(a)
    \/ \E a \in Addr : add_peer(a)
    \/ \E a \in Addr : remove_peer(a)

Spec == Init /\ [][Next]_vars

\* ------------------------------------------------- the connection gauges

\* The peer book next to the metrics recorder: every call moves the gauges
\* the way its increment_gauge! / decrement_gauge! lines do. A gauge is an
\* f64 moved in steps of 1.0, which is exact for the counts reached here.

\* set_connecting: the gauge moves when insert() returns true.
Gauges_set_connecting(g, b, address) ==
    IF is_connected(b, address) THEN g
    ELSE IF address \notin b.connecting
        THEN [g EXCEPT !.connecting = @ + 1]
    ELSE g

\* set_connected: one decrement per successful remove, an increment when
\* insert() returns None.
Gauges_set_connected(g, b, address, listener_opt) ==
    LET listener == Listener(address, listener_opt)
        g1 == IF listener \in DOMAIN b.disconnected
              THEN [g EXCEPT !.disconnected = @ - 1] ELSE g
        g2 == IF address \in b.connecting
              THEN [g1 EXCEPT !.connecting = @ - 1] ELSE g1
    IN  IF listener \notin DOMAIN b.connected
        THEN [g2 EXCEPT !.connected = @ + 1] ELSE g2

Gauges_set_disconnected(g, b, address) ==
    IF address \in b.connecting
        THEN [g EXCEPT !.connecting = @ - 1]
    ELSE IF address \in DOMAIN b.connected
        THEN LET g1 == [g EXCEPT !.connected = @ - 1]
             IN  IF address \notin DOMAIN b.disconnected
                 THEN [g1 EXCEPT !.disconnected = @ + 1] ELSE g1
    ELSE g

Gauges_add_peer(g, b, address) ==
    IF is_connected(b, address) \/ is_disconnected(b, address) \/ is_connecting(b, address)
    THEN g
    ELSE [g EXCEPT !.disconnected = @ + 1]

\* remove_peer: the gauges move in set_disconnected only; the remove() that
\* follows has no decrement_gauge! next to it.
Gauges_remove_peer(g, b, address) == Gauges_set_disconnected(g, b, address)

\* Starting from PeerBook::default() and a fresh recorder.
InitGauges ==
    /\ connecting_peers = {}
    /\ connected_peers = EmptyMap
    /\ disconnected_peers = EmptyMap
    /\ now = 1
    /\ last = NoCall
    /\ is_bootnode = FALSE
    /\ sync_hist = NoSyncHist
    /\ InitConc

gauge_fixed == <<now, is_bootnode, sync_hist, conc_vars, config, dials, tick, storage,
                 sync, inbound, effects, topology, metrics, handles>>

metered_set_connecting(a) ==
    /\ SetBook(PeerBook_set_connecting(Book, a).book)
    /\ gauges' = Gauges_set_connecting(gauges, Book, a)
    /\ last' = Call("set_connecting", a, None, PeerBook_set_connecting(Book, a).ret)
    /\ UNCHANGED gauge_fixed

metered_set_connected(a, l) ==
    /\ Listener(a, l) \in DOMAIN disconnected_peers
          => disconnected_peers[Listener(a, l)].connected_count < MaxConnects
    /\ SetBook(PeerBook_set_connected(Book, a, l, now).book)
    /\ gauges' = Gauges_set_connected(gauges, Book, a, l)
    /\ last' = Call("set_connected", a, l, "unit")
    /\ UNCHANGED gauge_fixed

metered_set_disconnected(a) ==
    /\ SetBook(PeerBook_set_disconnected(Book, a, now).book)
    /\ gauges' = Gauges_set_disconnected(gauges, Book, a)
    /\ last' = Call("set_disconnected", a, None, PeerBook_set_disconnected(Book, a, now).ret)
    /\ UNCHANGED gauge_fixed

metered_add_peer(a) ==
    /\ SetBook(PeerBook_add_peer(Book, a).book)
    /\ gauges' = Gauges_add_peer(gauges, Book, a)
    /\ last' = Call("add_peer", a, None, "unit")
    /\ UNCHANGED gauge_fixed

\* The gauge is followed up to MaxDrift above the size of its map.
metered_remove_peer(a) ==
    /\ gauges.disconnected - Cardinality(DOMAIN disconnected_peers) < MaxDrift
    /\ SetBook(PeerBook_remove_peer(Book, a, now).book)
    /\ gauges' = Gauges_remove_peer(gauges, Book, a)
    /\ last' = Call("remove_peer", a, None, "unit")
    /\ UNCHANGED gauge_fixed

NextGauges ==
    \/ \E a \in Addr : metered_set_connecting(a)
    \/ \E a \in Addr, l \in Addr \cup {None} : metered_set_connected(a, l)
    \/ \E a \in Addr : metered_set_disconnected(a)
    \/ \E a \in Addr : metered_add_peer(a)
    \/ \E a \in Addr : metered_remove_peer(a)

SpecGauges == InitGauges /\ [][NextGauges]_vars

\* ------------------------------------------- block sync through the dispatcher

\* The dispatcher of a node with consensus attached, as far as Sync and
\* SyncBlock messages go, next to peers connecting and disconnecting. The
\* sync counters do not depend on the clock: every reading here is the
\* current instant (the clock advances in Spec).

InitSync ==
    /\ connecting_peers = {}
    /\ connected_peers = EmptyMap
    /\ disconnected_peers = EmptyMap
    /\ now = 1
    /\ last = NoCall
    /\ is_bootnode \in BOOLEAN
    /\ sync_hist = NoSyncHist
    /\ InitConc

\* A message of a connected peer is dispatched while its counter is below the cap.
MayDispatchFrom(a) ==
    a \in DOMAIN connected_peers =>
        connected_peers[a].quality.num_messages_received < MaxMessages

\* A handshake with peer a completes (Node::set_connected, listener = remote).
sync_peer_connects(a) ==
    LET t == now IN
        /\ a \notin DOMAIN connected_peers
        /\ a \in DOMAIN disconnected_peers
              => disconnected_peers[a].connected_count < MaxConnects
        /\ Clock(t)
        /\ SetBook(PeerBook_set_connected(Book, a, a, t).book)
        /\ last' = Call("connect", a, a, "Ok")
        /\ UNCHANGED <<env_vars, sync_hist, conc_vars>>

\* Node::disconnect_from_peer(a), which also cancels what a had announced.
sync_peer_disconnects(a) ==
    LET t == now IN
        LET r == PeerBook_set_disconnected(Book, a, t)
        IN  /\ Clock(t)
            /\ SetBook(r.book)
            /\ last' = Call("disconnect", a, None, r.ret)
            /\ sync_hist' = IF r.ret = "true"
                            THEN [sync_hist EXCEPT ![a] = NoSyncHist[a]]
                            ELSE sync_hist
            /\ UNCHANGED <<env_vars, conc_vars>>

\* process_incoming_messages on Message { Inbound(a), Sync(count hashes) }.
dispatch_Sync(a, count) ==
    LET t == now IN
        /\ Clock(t)
        /\ MayDispatchFrom(a)
        /\ IF is_bootnode
           THEN /\ UNCHANGED <<book_vars, sync_hist>>
                /\ last' = Call("Sync", a, count, "dropped")
           ELSE LET b1 == PeerBook_register_message(Book, a, t).book
                    r  == PeerBook_expecting_sync_blocks(b1, a, count)
                IN  /\ SetBook(r.book)
                    /\ sync_hist' =
                          IF r.ret = "true"
                          THEN [sync_hist EXCEPT ![a] =
                                   [expected |-> count, blocks |-> 0,
                                    accepted |-> 0, signals |-> 0]]
                          ELSE sync_hist
                    /\ last' = Call("Sync", a, count, "Ok")
        /\ UNCHANGED <<env_vars, conc_vars>>

\* process_incoming_messages on Message { Inbound(a), SyncBlock(block) };
\* accepted = 1 when consensus' received_block returns Ok, 0 when it returns
\* an error, which the handler propagates with `?`.
dispatch_SyncBlock(a, accepted) ==
    LET t == now IN
        /\ Clock(t)
        /\ MayDispatchFrom(a)
        /\ IF is_bootnode
           THEN /\ UNCHANGED <<book_vars, sync_hist>>
                /\ last' = Call("SyncBlock", a, accepted, "dropped")
           ELSE LET b1   == PeerBook_register_message(Book, a, t).book
                    seen == HasQuality(Book, a)
                IN  IF accepted = 0
                    THEN /\ SetBook(b1)
                         /\ sync_hist' =
                               IF seen
                               THEN [sync_hist EXCEPT ![a].blocks = @ + 1]
                               ELSE sync_hist
                         /\ last' = Call("SyncBlock", a, accepted, "Err")
                    ELSE LET r == PeerBook_got_sync_block(b1, a)
                         IN  /\ seen =>
                                   LET rem == connected_peers[a].quality.remaining_sync_blocks
                                   IN  \/ rem.hi = 0 /\ rem.lo <= MaxSync
                                       \/ rem.hi = Limb - 1 /\ Limb - rem.lo < MaxUnderflow
                             /\ SetBook(r.book)
                             /\ sync_hist' =
                                   IF seen
                                   THEN [sync_hist EXCEPT
                                           ![a].blocks   = @ + 1,
                                           ![a].accepted = @ + 1,
                                           ![a].signals  = IF r.ret = "true"
                                                           THEN @ + 1 ELSE @]
                                   ELSE sync_hist
                             /\ last' = Call("SyncBlock", a, accepted,
                                             IF r.ret = "true" THEN "finished" ELSE "Ok")
        /\ UNCHANGED <<env_vars, conc_vars>>

NextSync ==
    \/ \E a \in Addr : sync_peer_connects(a)
    \/ \E a \in Addr : sync_peer_disconnects(a)
    \/ \E a \in Addr, count \in 0..MaxSync : dispatch_Sync(a, count)
    \/ \E a \in Addr, accepted \in {0, 1} : dispatch_SyncBlock(a, accepted)

SpecSync == InitSync /\ [][NextSync]_vars

\* ------------------------- concurrent Node::set_connected / disconnect_from_peer

\* Each caller runs one call; a step is one lock-protected access. The guard
\* of connected_peers is a write guard while PeerBook::set_disconnected is
\* inside its `if let Some(..) = self.connected_peers.write().remove(..)`
\* block, which lasts until the record is inserted into disconnected_peers.

InitNode ==
    /\ connecting_peers = {}
    /\ connected_peers = EmptyMap
    /\ disconnected_peers = EmptyMap
    /\ now = 1
    /\ last = NoCall
    /\ is_bootnode = FALSE
    /\ sync_hist = NoSyncHist
    /\ InitConc

ConnectedLocked == \E q \in Proc : procs[q].pc \in {"D_drain", "D_insert"}

Goto(p, pc) == procs' = [procs EXCEPT ![p].pc = pc]

Return(p, ret) == procs' = [procs EXCEPT ![p].pc = "done", ![p].ret = ret]

TaskEntry(p, kind, abortable) == [owner |-> p, kind |-> kind, abortable |-> abortable]

\* PeerInfo::register_task on the task list named `tag`, wherever the record
\* sharing that list is now: in a map, or held by a caller between two maps.
\* A list no record shares any more is dropped with the clone.
Pushed(info, tag, entry) ==
    IF info.arc = tag THEN [info EXCEPT !.tasks = Append(@, entry)] ELSE info

PushedAll(m, tag, entry) == [x \in DOMAIN m |-> Pushed(m[x], tag, entry)]

register_task(p, tag, entry, pc, ret) ==
    /\ connected_peers' = PushedAll(connected_peers, tag, entry)
    /\ disconnected_peers' = PushedAll(disconnected_peers, tag, entry)
    /\ procs' = [q \in Proc |->
                    IF q = p
                    THEN [procs[p] EXCEPT !.pc = pc, !.ret = ret]
                    ELSE [procs[q] EXCEPT !.info = PushedAll(@, tag, entry)]]

\* What set_disconnected does to the drained handles: abort, or hand to a
\* detached task that awaits the handle for at most 5 seconds.
Drained(ts, tasks) ==
    [q \in Proc |-> [k \in TaskKind |->
        IF \E i \in 1..Len(tasks) : tasks[i].owner = q /\ tasks[i].kind = k
        THEN LET i == CHOOSE i \in 1..Len(tasks) :
                          tasks[i].owner = q /\ tasks[i].kind = k
             IN  IF tasks[i].abortable THEN "aborted" ELSE "awaited"
        ELSE ts[q][k]]]

\* --- Node::initiate_connection(remote_address), up to the spawn of the
\* handshake task: the address is refused when it is connecting or connected,
\* and is marked as connecting otherwise.
initiate_connection(a) ==
    /\ ~ConnectedLocked
    /\ ~is_connecting(Book, a)
    /\ ~is_connected(Book, a)
    /\ connecting_peers' = PeerBook_set_connecting(Book, a).book.connecting
    /\ UNCHANGED <<connected_peers, disconnected_peers, now, last, node_vars>>

\* --- Node::set_connected(remote_address, remote_listener, ..)

call_set_connected(p, a, l) ==
    /\ procs[p].pc = "idle"
    /\ procs' = [procs EXCEPT ![p] = [IdleProc EXCEPT !.pc = "N_check",
                                        !.op = "set_connected", !.addr = a, !.lst = l]]
    /\ UNCHANGED <<book_vars, now, last, env_vars, sync_hist, channels, task_state>>

\* if self.connected_peers().contains(&remote_listener) { return Err(..) }
N_check(p) ==
    /\ procs[p].pc = "N_check"
    /\ ~ConnectedLocked
    /\ IF procs[p].lst \in DOMAIN connected_peers
       THEN Return(p, "PeerAlreadyConnected")
       ELSE Goto(p, "N_channel")
    /\ UNCHANGED <<book_vars, now, last, env_vars, sync_hist, channels, task_state>>

\* self.outbound.channels.write().insert(remote_listener, sender); the reader
\* and the writer task are spawned.
N_channel(p) ==
    /\ procs[p].pc = "N_channel"
    /\ channels' = MapInsert(channels, procs[p].lst, p)
    /\ task_state' = [task_state EXCEPT ![p] = [k \in TaskKind |-> "running"]]
    /\ Goto(p, "B_take")
    /\ UNCHANGED <<book_vars, now, last, env_vars, sync_hist>>

\* PeerBook::set_connected: self.disconnected_peers.write().remove(&listener)
B_take(p) ==
    /\ procs[p].pc = "B_take"
    /\ LET l    == procs[p].lst
           info == IF l \in DOMAIN disconnected_peers
                   THEN disconnected_peers[l]
                   ELSE [PeerInfo_new(l) EXCEPT !.arc = p]
       IN  /\ disconnected_peers' = MapRemove(disconnected_peers, l)
           /\ procs' = [procs EXCEPT ![p].pc = "B_connecting", ![p].info = <<info>>]
    /\ UNCHANGED <<connecting_peers, connected_peers, now, last, env_vars,
                   sync_hist, channels, task_state>>

\* PeerBook::set_connected: self.connecting_peers.write().remove(&address)
B_connecting(p) ==
    /\ procs[p].pc = "B_connecting"
    /\ connecting_peers' = connecting_peers \ {procs[p].addr}
    /\ Goto(p, "B_insert")
    /\ UNCHANGED <<connected_peers, disconnected_peers, now, last, env_vars,
                   sync_hist, channels, task_state>>

\* PeerBook::set_connected: peer_info.set_connected();
\* self.connected_peers.write().insert(listener, peer_info)
B_insert(p) ==
    /\ procs[p].pc = "B_insert"
    /\ ~ConnectedLocked
    /\ connected_peers' = MapInsert(connected_peers, procs[p].lst,
                                    PeerInfo_set_connected(procs[p].info[1], now))
    /\ procs' = [procs EXCEPT ![p].pc = "G_check", ![p].info = << >>]
    /\ UNCHANGED <<connecting_peers, disconnected_peers, now, last, env_vars,
                   sync_hist, channels, task_state>>

\* The tasks of a call that found its peer gone are aborted.
AbortOwn(p) == task_state' = [task_state EXCEPT ![p] = [k \in TaskKind |-> "aborted"]]

\* PeerBook::get_peer(listener, true): if self.is_connected(address)
G_check(p) ==
    /\ procs[p].pc = "G_check"
    /\ ~ConnectedLocked
    /\ IF procs[p].lst \in DOMAIN connected_peers
       THEN Goto(p, "G_clone") /\ UNCHANGED task_state
       ELSE Return(p, "PeerIsDisconnected") /\ AbortOwn(p)
    /\ UNCHANGED <<book_vars, now, last, env_vars, sync_hist, channels>>

\* PeerBook::get_peer: self.connected_peers().get(&address).cloned()
G_clone(p) ==
    /\ procs[p].pc = "G_clone"
    /\ ~ConnectedLocked
    /\ IF procs[p].lst \in DOMAIN connected_peers
       THEN /\ procs' = [procs EXCEPT ![p].pc = "R_reader",
                           ![p].ref = connected_peers[procs[p].lst].arc]
            /\ UNCHANGED task_state
       ELSE Return(p, "PeerIsDisconnected") /\ AbortOwn(p)
    /\ UNCHANGED <<book_vars, now, last, env_vars, sync_hist, channels>>

\* peer.register_task(peer_reading_task, true)
R_reader(p) ==
    /\ procs[p].pc = "R_reader"
    /\ register_task(p, procs[p].ref, TaskEntry(p, "reader", TRUE), "R_writer", "none")
    /\ UNCHANGED <<connecting_peers, now, last, env_vars, sync_hist, channels,
                   task_state>>

\* peer.register_task(peer_writing_task, false); Ok(())
R_writer(p) ==
    /\ procs[p].pc = "R_writer"
    /\ register_task(p, procs[p].ref, TaskEntry(p, "writer", FALSE), "done", "Ok")
    /\ UNCHANGED <<connecting_peers, now, last, env_vars, sync_hist, channels,
                   task_state>>

\* --- Node::disconnect_from_peer(remote_address)

call_disconnect_from_peer(p, a) ==
    /\ procs[p].pc = "idle"
    /\ procs' = [procs EXCEPT ![p] = [IdleProc EXCEPT !.pc = "D_connecting",
                                        !.op = "disconnect_from_peer", !.addr = a]]
    /\ UNCHANGED <<book_vars, now, last, env_vars, sync_hist, channels, task_state>>

\* PeerBook::set_disconnected, case 1: self.connecting_peers.write().remove(..)
D_connecting(p) ==
    /\ procs[p].pc = "D_connecting"
    /\ IF procs[p].addr \in connecting_peers
       THEN /\ connecting_peers' = connecting_peers \ {procs[p].addr}
            /\ Return(p, "false")
       ELSE /\ UNCHANGED connecting_peers
            /\ Goto(p, "D_connected")
    /\ UNCHANGED <<connected_peers, disconnected_peers, now, last, env_vars,
                   sync_hist, channels, task_state>>

\* case 2: if let Some(mut peer_info) = self.connected_peers.write().remove(..)
D_connected(p) ==
    /\ procs[p].pc = "D_connected"
    /\ ~ConnectedLocked
    /\ IF procs[p].addr \in DOMAIN connected_peers
       THEN /\ connected_peers' = MapRemove(connected_peers, procs[p].addr)
            /\ procs' = [procs EXCEPT ![p].pc = "D_drain",
                           ![p].info = <<connected_peers[procs[p].addr]>>]
       ELSE /\ UNCHANGED connected_peers
            /\ Return(p, "false")
    /\ UNCHANGED <<connecting_peers, disconnected_peers, now, last, env_vars,
                   sync_hist, channels, task_state>>

\* peer_info.set_disconnected()
D_drain(p) ==
    /\ procs[p].pc = "D_drain"
    /\ task_state' = Drained(task_state, procs[p].info[1].tasks)
    /\ procs' = [procs EXCEPT ![p].pc = "D_insert",
                   ![p].info = <<PeerInfo_set_disconnected(procs[p].info[1], now)>>]
    /\ UNCHANGED <<book_vars, now, last, env_vars, sync_hist, channels>>

\* self.disconnected_peers.write().insert(address, peer_info); return true
D_insert(p) ==
    /\ procs[p].pc = "D_insert"
    /\ disconnected_peers' = MapInsert(disconnected_peers, procs[p].addr, procs[p].info[1])
    /\ procs' = [procs EXCEPT ![p].pc = "D_channel", ![p].info = << >>]
    /\ UNCHANGED <<connecting_peers, connected_peers, now, last, env_vars,
                   sync_hist, channels, task_state>>

\* disconnect_from_peer that leaves the channel of the peer in place.
Mutant_D_channel_kept(p) ==
    /\ procs[p].pc = "D_channel"
    /\ Return(p, "true")
    /\ UNCHANGED <<book_vars, now, last, env_vars, sync_hist, channels, task_state>>

\* if was_connected { self.outbound.channels.write().remove(&remote_address); }
D_channel(p) ==
    /\ procs[p].pc = "D_channel"
    /\ channels' = MapRemove(channels, procs[p].addr)
    /\ Return(p, "true")
    /\ UNCHANGED <<book_vars, now, last, env_vars, sync_hist, task_state>>

NextNode ==
    \/ \E a \in Addr : initiate_connection(a)
    \/ \E p \in Proc, a \in Addr, l \in Addr : call_set_connected(p, a, l)
    \/ \E p \in Proc : N_check(p)
    \/ \E p \in Proc : N_channel(p)
    \/ \E p \in Proc : B_take(p)
    \/ \E p \in Proc : B_connecting(p)
    \/ \E p \in Proc : B_insert(p)
    \/ \E p \in Proc : G_check(p)
    \/ \E p \in Proc : G_clone(p)
    \/ \E p \in Proc : R_reader(p)
    \/ \E p \in Proc : R_writer(p)
    \/ \E p \in Proc, a \in Addr : call_disconnect_from_peer(p, a)
    \/ \E p \in Proc : D_connecting(p)
    \/ \E p \in Proc : D_connected(p)
    \/ \E p \in Proc : D_drain(p)
    \/ \E p \in Proc : D_insert(p)
    \/ \E p \in Proc : D_channel(p)

SpecNode == InitNode /\ [][NextNode]_vars

\* ------------------------------------- concurrent PeerBook operations

\* Callers run PeerBook operations at the same time; a step is one
\* acquisition of a map's guard together with what is done under it. A guard
\* is released within the step that took it, except where the code keeps it
\* past the next acquisition.

\* The number of callers that run at the same time.
MaxLockers == 2

Lockers == 1..MaxLockers

MapNames == {"disconnected", "connecting", "connected"}

BookOps == {"set_connecting", "set_connected", "set_disconnected", "add_peer",
            "remove_peer", "set_unroutable", "number_of_connecting_peers",
            "connected_peers", "disconnected_peers", "sending_ping"}

\* The first access of each operation.
FirstStep(op) ==
    CASE op = "set_connecting"             -> "SC_is_connected"
      [] op = "set_connected"              -> "P_take"
      [] op = "set_disconnected"           -> "P_connecting"
      [] op = "remove_peer"                -> "P_connecting"
      [] op = "add_peer"                   -> "A_is_connected"
      [] op = "set_unroutable"             -> "U_mark"
      [] op = "number_of_connecting_peers" -> "S_read"
      [] op = "connected_peers"            -> "S_read"
      [] op = "disconnected_peers"         -> "S_read"
      [] op = "sending_ping"               -> "Q_clone"

\* set_connected that keeps the guard of disconnected_peers until it has
\* inserted the record into connected_peers.
Mutant_Held_until_inserted(p) ==
    IF procs[p].pc \in {"P_drain", "P_disconnected"} THEN {"connected"}
    ELSE IF procs[p].pc \in {"P_untrack", "P_connected"} THEN {"disconnected"}
    ELSE {}

\* set_disconnected that keeps the guard of connecting_peers from its first
\* case to its end.
Mutant_Held_from_connecting(p) ==
    IF procs[p].pc = "P_remove" THEN {"connecting"}
    ELSE IF procs[p].pc \in {"P_drain", "P_disconnected"} THEN {"connecting", "connected"}
    ELSE {}

\* The guards caller p holds between two of its steps: the write guard of
\* connected_peers, from `if let Some(mut peer_info) =
\* self.connected_peers.write().remove(&address)` to the end of that block.
Held(p) ==
    IF procs[p].pc \in {"P_drain", "P_disconnected"} THEN {"connected"} ELSE {}

\* The map whose guard the next step of caller p acquires.
Acquires(p) ==
    LET pc == procs[p].pc
    IN  CASE pc \in {"SC_is_connected", "P_connected", "P_remove",
                     "A_is_connected", "Q_clone"}                    -> "connected"
          [] pc \in {"SC_insert", "P_untrack", "P_connecting",
                     "A_is_connecting"}                              -> "connecting"
          [] pc \in {"P_take", "P_disconnected", "R_remove",
                     "A_is_disconnected", "A_insert", "U_mark"}      -> "disconnected"
          [] pc = "S_read" ->
                CASE procs[p].op = "number_of_connecting_peers" -> "connecting"
                  [] procs[p].op = "connected_peers"            -> "connected"
                  [] OTHER                                      -> "disconnected"
          [] OTHER -> "none"

\* parking_lot's RwLock: a guard is granted when no other caller holds one
\* that excludes it; the only guards held across steps are write guards.
Granted(p) == \A q \in Proc \ {p} : Acquires(p) \notin Held(q)

\* The books the callers can find: each address unknown, added by add_peer,
\* marked by set_connecting, or connected by set_connected.
PeerStates == {"unknown", "known", "connecting", "connected"}

StartBook(f) ==
    [ connecting   |-> {a \in Addr : f[a] = "connecting"},
      connected    |-> [a \in {x \in Addr : f[x] = "connected"} |->
                           PeerInfo_set_connected(PeerInfo_new(a), 1)],
      disconnected |-> [a \in {x \in Addr : f[x] = "known"} |-> PeerInfo_new(a)] ]

InitLocks ==
    /\ \E f \in [Addr -> PeerStates] :
          /\ connecting_peers = StartBook(f).connecting
          /\ connected_peers = StartBook(f).connected
          /\ disconnected_peers = StartBook(f).disconnected
    /\ now = 1
    /\ last = NoCall
    /\ is_bootnode = FALSE
    /\ sync_hist = NoSyncHist
    /\ InitConc

lock_fixed == <<now, last, env_vars, sync_hist, channels, task_state>>

\* The end of set_disconnected: remove_peer goes on to its own removal.
Finish(p, ret) ==
    IF procs[p].op = "remove_peer" THEN Goto(p, "R_remove") ELSE Return(p, ret)

call_book(p, op, a, l) ==
    /\ procs[p].pc = "idle"
    /\ l # None => op = "set_connected"
    /\ procs' = [procs EXCEPT ![p] = [IdleProc EXCEPT !.pc = FirstStep(op),
                                        !.op = op, !.addr = a, !.lst = l]]
    /\ UNCHANGED <<book_vars, lock_fixed>>

\* set_connecting: if self.is_connected(address) { return Err(..) }
SC_is_connected(p) ==
    /\ procs[p].pc = "SC_is_connected"
    /\ Granted(p)
    /\ IF procs[p].addr \in DOMAIN connected_peers
       THEN Return(p, "PeerAlreadyConnected")
       ELSE Goto(p, "SC_insert")
    /\ UNCHANGED <<book_vars, lock_fixed>>

\* set_connecting: self.connecting_peers.write().insert(address); Ok(())
SC_insert(p) ==
    /\ procs[p].pc = "SC_insert"
    /\ Granted(p)
    /\ connecting_peers' = connecting_peers \cup {procs[p].addr}
    /\ Return(p, "Ok")
    /\ UNCHANGED <<connected_peers, disconnected_peers, lock_fixed>>

\* set_connected: match self.disconnected_peers.write().remove(&listener)
P_take(p) ==
    /\ procs[p].pc = "P_take"
    /\ Granted(p)
    /\ LET l    == Listener(procs[p].addr, procs[p].lst)
           info == IF l \in DOMAIN disconnected_peers
                   THEN disconnected_peers[l]
                   ELSE [PeerInfo_new(l) EXCEPT !.arc = p]
       IN  /\ disconnected_peers' = MapRemove(disconnected_peers, l)
           /\ procs' = [procs EXCEPT ![p].pc = "P_untrack", ![p].info = <<info>>]
    /\ UNCHANGED <<connecting_peers, connected_peers, lock_fixed>>

\* set_connected: self.connecting_peers.write().remove(&address)
P_untrack(p) ==
    /\ procs[p].pc = "P_untrack"
    /\ Granted(p)
    /\ connecting_peers' = connecting_peers \ {procs[p].addr}
    /\ Goto(p, "P_connected")
    /\ UNCHANGED <<connected_peers, disconnected_peers, lock_fixed>>

\* set_connected: peer_info.set_connected();
\* self.connected_peers.write().insert(listener, peer_info)
P_connected(p) ==
    /\ procs[p].pc = "P_connected"
    /\ Granted(p)
    /\ connected_peers' = MapInsert(connected_peers,
                                    Listener(procs[p].addr, procs[p].lst),
                                    PeerInfo_set_connected(procs[p].info[1], now))
    /\ procs' = [procs EXCEPT ![p].pc = "done", ![p].ret = "unit", ![p].info = << >>]
    /\ UNCHANGED <<connecting_peers, disconnected_peers, lock_fixed>>

\* set_disconnected, case 1: if self.connecting_peers.write().remove(&address)
P_connecting(p) ==
    /\ procs[p].pc = "P_connecting"
    /\ Granted(p)
    /\ IF procs[p].addr \in connecting_peers
       THEN /\ connecting_peers' = connecting_peers \ {procs[p].addr}
            /\ Finish(p, "false")
       ELSE /\ UNCHANGED connecting_peers
            /\ Goto(p, "P_remove")
    /\ UNCHANGED <<connected_peers, disconnected_peers, lock_fixed>>

\* case 2: if let Some(mut peer_info) = self.connected_peers.write().remove(..)
P_remove(p) ==
    /\ procs[p].pc = "P_remove"
    /\ Granted(p)
    /\ IF procs[p].addr \in DOMAIN connected_peers
       THEN /\ connected_peers' = MapRemove(connected_peers, procs[p].addr)
            /\ procs' = [procs EXCEPT ![p].pc = "P_drain",
                           ![p].info = <<connected_peers[procs[p].addr]>>]
       ELSE /\ UNCHANGED connected_peers
            /\ Finish(p, "false")
    /\ UNCHANGED <<connecting_peers, disconnected_peers, lock_fixed>>

\* peer_info.set_disconnected()
P_drain(p) ==
    /\ procs[p].pc = "P_drain"
    /\ procs' = [procs EXCEPT ![p].pc = "P_disconnected",
                   ![p].info = <<PeerInfo_set_disconnected(procs[p].info[1], now)>>]
    /\ UNCHANGED <<book_vars, lock_fixed>>

\* self.disconnected_peers.write().insert(address, peer_info); return true
P_disconnected(p) ==
    /\ procs[p].pc = "P_disconnected"
    /\ Granted(p)
    /\ disconnected_peers' = MapInsert(disconnected_peers, procs[p].addr,
                                       procs[p].info[1])
    /\ IF procs[p].op = "remove_peer"
       THEN procs' = [procs EXCEPT ![p].pc = "R_remove", ![p].info = << >>]
       ELSE procs' = [procs EXCEPT ![p].pc = "done", ![p].ret = "true",
                        ![p].info = << >>]
    /\ UNCHANGED <<connecting_peers, connected_peers, lock_fixed>>

\* remove_peer: self.disconnected_peers.write().remove(&address)
R_remove(p) ==
    /\ procs[p].pc = "R_remove"
    /\ Granted(p)
    /\ disconnected_peers' = MapRemove(disconnected_peers, procs[p].addr)
    /\ Return(p, "unit")
    /\ UNCHANGED <<connecting_peers, connected_peers, lock_fixed>>

\* add_peer: if self.is_connected(address) || ..
A_is_connected(p) ==
    /\ procs[p].pc = "A_is_connected"
    /\ Granted(p)
    /\ IF procs[p].addr \in DOMAIN connected_peers
       THEN Return(p, "unit")
       ELSE Goto(p, "A_is_disconnected")
    /\ UNCHANGED <<book_vars, lock_fixed>>

\* add_peer: .. || self.is_disconnected(address) || ..
A_is_disconnected(p) ==
    /\ procs[p].pc = "A_is_disconnected"
    /\ Granted(p)
    /\ IF procs[p].addr \in DOMAIN disconnected_peers
       THEN Return(p, "unit")
       ELSE Goto(p, "A_is_connecting")
    /\ UNCHANGED <<book_vars, lock_fixed>>

\* add_peer: .. || self.is_connecting(address) { return; }
A_is_connecting(p) ==
    /\ procs[p].pc = "A_is_connecting"
    /\ Granted(p)
    /\ IF procs[p].addr \in connecting_peers
       THEN Return(p, "unit")
       ELSE Goto(p, "A_insert")
    /\ UNCHANGED <<book_vars, lock_fixed>>

\* add_peer: self.disconnected_peers.write().insert(address, PeerInfo::new(address))
A_insert(p) ==
    /\ procs[p].pc = "A_insert"
    /\ Granted(p)
    /\ disconnected_peers' = MapInsert(disconnected_peers, procs[p].addr,
                                       [PeerInfo_new(procs[p].addr) EXCEPT !.arc = p])
    /\ Return(p, "unit")
    /\ UNCHANGED <<connecting_peers, connected_peers, lock_fixed>>

\* set_unroutable: if let Some(peer_info) =
\* self.disconnected_peers.write().get_mut(&address) { .. }
U_mark(p) ==
    /\ procs[p].pc = "U_mark"
    /\ Granted(p)
    /\ disconnected_peers' = PeerBook_set_unroutable(Book, procs[p].addr).book.disconnected
    /\ Return(p, "unit")
    /\ UNCHANGED <<connecting_peers, connected_peers, lock_fixed>>

\* number_of_connecting_peers, connected_peers(), disconnected_peers(): the
\* map is read under its read guard; the caller keeps what it read of the
\* address (1: present, 0: absent).
S_read(p) ==
    /\ procs[p].pc = "S_read"
    /\ Granted(p)
    /\ LET keys == CASE Acquires(p) = "connecting"   -> connecting_peers
                     [] Acquires(p) = "connected"    -> DOMAIN connected_peers
                     [] Acquires(p) = "disconnected" -> DOMAIN disconnected_peers
       IN  procs' = [procs EXCEPT ![p].pc = "done", ![p].ret = "unit",
                       ![p].ref = IF procs[p].addr \in keys THEN 1 ELSE 0]
    /\ UNCHANGED <<book_vars, lock_fixed>>

\* sending_ping: self.peer_quality(target), which clones the connected map
\* and takes a reference to the quality of the record
Q_clone(p) ==
    /\ procs[p].pc = "Q_clone"
    /\ Granted(p)
    /\ IF procs[p].addr \in DOMAIN connected_peers
       THEN procs' = [procs EXCEPT ![p].pc = "Q_store",
                        ![p].ref = connected_peers[procs[p].addr].arc]
       ELSE Return(p, "unit")
    /\ UNCHANGED <<book_vars, lock_fixed>>

\* The quality written through the reference, wherever the record that shares
\* it is now.
Pinged(info, a, tag, t) ==
    IF info.address = a /\ info.arc = tag
    THEN [info EXCEPT !.quality.last_ping_sent = t, !.quality.expecting_pong = TRUE]
    ELSE info

PingedAll(m, a, tag, t) == [x \in DOMAIN m |-> Pinged(m[x], a, tag, t)]

\* sending_ping: *quality.last_ping_sent.lock() = Some(timestamp);
\* quality.expecting_pong.store(true, ..)
Q_store(p) ==
    /\ procs[p].pc = "Q_store"
    /\ connected_peers' = PingedAll(connected_peers, procs[p].addr, procs[p].ref, now)
    /\ disconnected_peers' = PingedAll(disconnected_peers, procs[p].addr, procs[p].ref, now)
    /\ procs' = [q \in Proc |->
                    IF q = p
                    THEN [procs[p] EXCEPT !.pc = "done", !.ret = "unit"]
                    ELSE [procs[q] EXCEPT
                            !.info = PingedAll(@, procs[p].addr, procs[p].ref, now)]]
    /\ UNCHANGED <<connecting_peers, lock_fixed>>

\* One step of the operation caller p is in.
book_step(p) ==
    \/ SC_is_connected(p)
    \/ SC_insert(p)
    \/ P_take(p)
    \/ P_untrack(p)
    \/ P_connected(p)
    \/ P_connecting(p)
    \/ P_remove(p)
    \/ P_drain(p)
    \/ P_disconnected(p)
    \/ R_remove(p)
    \/ A_is_connected(p)
    \/ A_is_disconnected(p)
    \/ A_is_connecting(p)
    \/ A_insert(p)
    \/ U_mark(p)
    \/ S_read(p)
    \/ Q_clone(p)
    \/ Q_store(p)

NextLocks ==
    \/ \E p \in Lockers, op \in BookOps, a \in Addr, l \in {None} \cup Addr :
          call_book(p, op, a, l)
    \/ \E p \in Lockers : book_step(p)

\* A caller that can take its next step is scheduled, and a guard that is
\* free is granted.
SpecLocks ==
    /\ InitLocks
    /\ [][NextLocks]_vars
    /\ \A p \in Lockers : WF_vars(book_step(p))

\* ------------------------------------------------------- peer maintenance

\* The node with its maintenance loop: peers connect to it and close their
\* connections, Pong messages are dispatched, the sync layer registers
\* failures, peer lists arrive, and update_peers runs on its timer.

\* The socket address of an inbound connection; the peer's listener address is
\* what the handshake announces.
Ephemeral == 5

\* The configured bootnodes: a remote one and, as on a bootnode, the node itself.
Bootnodes == {2, OwnAddress}

\* The settings update_peers and can_connect read: room for a single peer, or
\* more room than there are peers.
Configs ==
    { [bootnodes |-> Bootnodes, min_peers |-> mn, max_peers |-> mx,
       own_address |-> OwnAddress] :
        mn \in 1..MaxMinPeers, mx \in {1, MaxMaxPeers} }

\* Whether the peer listening on a may connect once more.
MayConnect(a) ==
    a \in DOMAIN disconnected_peers => disconnected_peers[a].connected_count < MaxSessions

InitMaint ==
    /\ connecting_peers = {}
    /\ connected_peers = EmptyMap
    /\ disconnected_peers = EmptyMap
    /\ now = 1
    /\ last = NoCall
    /\ is_bootnode \in BOOLEAN
    /\ sync_hist = NoSyncHist
    /\ channels = EmptyMap
    /\ procs = [p \in Proc |-> IdleProc]
    /\ task_state = [p \in Proc |-> [k \in TaskKind |-> "none"]]
    /\ config \in Configs
    /\ dials = NoDials
    /\ tick = NoTick
    /\ storage = NoStorage
    /\ InitNet

SetNode(st) ==
    /\ SetBook(st.book)
    /\ channels' = st.channels

maint_fixed == <<is_bootnode, config, storage, sync_hist, procs, task_state, net_vars>>

advance_clock ==
    /\ now < MaxTime
    /\ now' = now + 1
    /\ last' = Call("advance_clock", None, None, "unit")
    /\ tick' = NoTick
    /\ UNCHANGED <<book_vars, channels, dials, maint_fixed>>

\* A peer listening on l completed a handshake it initiated:
\* Node::set_connected(remote_address, remote_listener, ..).
inbound_connected(l) ==
    /\ MayConnect(l)
    /\ LET r == Node_set_connected(NodeState, Ephemeral, l, now)
       IN  /\ SetNode(r.st)
           /\ last' = Call("inbound_connected", l, None, r.ret)
    /\ tick' = NoTick
    /\ UNCHANGED <<now, dials, maint_fixed>>

\* The connection of a connected peer broke: its reader task calls
\* Node::disconnect_from_peer.
peer_closed(a) ==
    /\ a \in DOMAIN connected_peers
    /\ SetNode(Node_disconnect_from_peer(NodeState, a, now))
    /\ last' = Call("peer_closed", a, None, "unit")
    /\ tick' = NoTick
    /\ UNCHANGED <<now, dials, maint_fixed>>

\* The dispatcher hands a Pong of a connected peer to
\* PeerBook::received_pong.
received_pong(a) ==
    /\ a \in DOMAIN connected_peers
    /\ connected_peers[a].quality.failures < MaxFailures
    /\ SetBook(PeerBook_received_pong(Book, a, now).book)
    /\ last' = Call("received_pong", a, None, "unit")
    /\ tick' = NoTick
    /\ UNCHANGED <<now, channels, dials, maint_fixed>>

\* PeerBook::register_failure, called by the sync layer for a connected peer.
register_failure(a) ==
    /\ a \in DOMAIN connected_peers
    /\ connected_peers[a].quality.failures < MaxFailures
    /\ SetBook(PeerBook_register_failure(Book, a).book)
    /\ last' = Call("register_failure", a, None, "unit")
    /\ tick' = NoTick
    /\ UNCHANGED <<now, channels, dials, maint_fixed>>

RECURSIVE AddEach(_, _)
AddEach(b, addrs) ==
    IF addrs = {} THEN b
    ELSE LET a == CHOOSE x \in addrs : TRUE
         IN  AddEach(PeerBook_add_peer(b, a).book, addrs \ {a})

\* process_inbound_peers without its filter on the local address.
Mutant_process_inbound_peers_unfiltered(b, cfg, peers) == AddEach(b, peers)

Node_process_inbound_peers(b, cfg, peers) == AddEach(b, peers \ {cfg.own_address})

\* A Peers message: Node::process_inbound_peers.
process_inbound_peers(peers) ==
    /\ SetBook(Node_process_inbound_peers(Book, config, peers))
    /\ last' = Call("process_inbound_peers", None, None, "unit")
    /\ tick' = NoTick
    /\ UNCHANGED <<now, channels, dials, maint_fixed>>

Spawned(d, targets, kind) ==
    [a \in NodeAddr |-> IF a \in targets
                        THEN [d[a] EXCEPT ![kind] = [IdleDial EXCEPT !.pc = "spawned"]]
                        ELSE d[a]]

\* Node::update_peers, one run of it.
update_peers ==
    LET t       == now
        low     == LowQuality(Book, config.bootnodes, t)
        st1     == DisconnectEach(NodeState, low, t)
        n_connected  == Cardinality(DOMAIN st1.book.connected)
        n_connecting == Cardinality(st1.book.connecting)
        counts  == PeerCounts(is_bootnode, config.min_peers, config.max_peers,
                              n_connected, n_connecting)
        boots   == IF n_connected = 0 THEN BootnodeTargets(config) ELSE {}
    IN  \E D \in Pops(st1.book, is_bootnode, counts.disconnect) :
          LET st2 == DisconnectEach(st1, D, t)
          IN  \E S \in PeerSamples(st2.book, config, counts.connect) :
                LET left == DOMAIN st2.book.connected
                    getpeers == IF left # {}
                                THEN Node_broadcast_getpeers_requests(st2.book, config,
                                                                      is_bootnode)
                                ELSE << >>
                    pings == IF left # {}
                             THEN Node_broadcast_pings(st2.book, sync, t)
                             ELSE [book |-> st2.book, requests |-> << >>]
                    b3   == pings.book
                IN  /\ \A a \in boots : dials[a]["bootnode"].pc = "idle"
                    /\ \A a \in S : dials[a]["peer"].pc = "idle"
                    /\ SetNode([st2 EXCEPT !.book = b3])
                    /\ dials' = Spawned(Spawned(dials, boots, "bootnode"), S, "peer")
                    /\ tick' = [kept |-> DOMAIN st1.book.connected,
                                number_of_connected_peers |-> n_connected,
                                number_of_connecting_peers |-> n_connecting,
                                number_to_disconnect |-> counts.disconnect,
                                number_to_connect |-> counts.connect,
                                dropped |-> D,
                                bootnode_dials |-> boots,
                                peer_dials |-> S,
                                pinged |-> left,
                                requests |-> getpeers \o pings.requests]
                    /\ last' = Call("update_peers", None, None, "unit")
                    /\ UNCHANGED <<now, maint_fixed>>

\* --- connection attempts: Node::initiate_connection and its callers

\* The port of a socket address: the node's own port or another one.
Port(a) == IF a \in {OwnAddress, OwnLoopback} THEN "own" ELSE "other"

\* remote_address == own_address || (loopback && same port); no address of
\* the model is the unspecified one.
IsSelfAddress(remote_address, own_address) ==
    \/ remote_address = own_address
    \/ IsLoopback(remote_address) /\ Port(remote_address) = Port(own_address)

Node_can_connect(b, cfg) ==
    LET num_connected  == Cardinality(DOMAIN b.connected)
        num_connecting == Cardinality(b.connecting)
    IN  ~(num_connected >= cfg.max_peers \/ num_connected + num_connecting >= cfg.max_peers)

\* initiate_connection that skips the can_connect check.
Mutant_initiate_without_limit(b, cfg, remote_address) ==
    IF IsSelfAddress(remote_address, cfg.own_address)
        THEN [book |-> b, ret |-> "SelfConnectAttempt"]
    ELSE IF is_connecting(b, remote_address)
        THEN [book |-> b, ret |-> "PeerAlreadyConnecting"]
    ELSE IF is_connected(b, remote_address)
        THEN [book |-> b, ret |-> "PeerAlreadyConnected"]
    ELSE PeerBook_set_connecting(b, remote_address)

\* initiate_connection up to the spawn of the handshake task; "Ok" stands for
\* the address having been marked as connecting.
Node_initiate_connection(b, cfg, remote_address) ==
    IF ~Node_can_connect(b, cfg)
        THEN [book |-> b, ret |-> "TooManyConnections"]
    ELSE IF IsSelfAddress(remote_address, cfg.own_address)
        THEN [book |-> b, ret |-> "SelfConnectAttempt"]
    ELSE IF is_connecting(b, remote_address)
        THEN [book |-> b, ret |-> "PeerAlreadyConnecting"]
    ELSE IF is_connected(b, remote_address)
        THEN [book |-> b, ret |-> "PeerAlreadyConnected"]
    ELSE PeerBook_set_connecting(b, remote_address)

\* The errors after which the caller leaves the peer alone.
Tolerated(kind) ==
    IF kind = "bootnode"
    THEN {"Ok", "PeerAlreadyConnecting", "PeerAlreadyConnected", "TooManyConnections"}
    ELSE {"Ok", "PeerAlreadyConnecting", "PeerAlreadyConnected", "TooManyConnections",
          "SelfConnectAttempt"}

\* The match of the callers with an arm that lets HandshakeTimeout pass.
Mutant_DialResult_timeout_tolerated(st, kind, remote_address, result, t) ==
    IF result \in Tolerated(kind) \cup {"HandshakeTimeout"}
    THEN st
    ELSE LET d == Node_disconnect_from_peer(st, remote_address, t)
         IN  [d EXCEPT !.book = PeerBook_set_unroutable(d.book, remote_address).book]

\* The match on the result of initiate_connection in connect_to_bootnodes
\* and in connect_to_disconnected_peers.
DialResult(st, kind, remote_address, result, t) ==
    IF result \in Tolerated(kind)
    THEN st
    ELSE LET d == Node_disconnect_from_peer(st, remote_address, t)
         IN  [d EXCEPT !.book = PeerBook_set_unroutable(d.book, remote_address).book]

SetDial(a, kind, d) == dials' = [dials EXCEPT ![a][kind] = d]

\* The spawned task calls initiate_connection: the checks, set_connecting and
\* the spawn of the handshake task; a refusal goes back to the caller at once.
initiate_connection_begin(a, kind) ==
    /\ dials[a][kind].pc = "spawned"
    /\ LET r == Node_initiate_connection(Book, config, a)
       IN  /\ IF r.ret = "Ok"
              THEN /\ SetBook(r.book)
                   /\ UNCHANGED channels
                   /\ SetDial(a, kind, [dials[a][kind] EXCEPT !.pc = "handshake"])
              ELSE /\ SetNode(DialResult(NodeState, kind, a, r.ret, now))
                   /\ SetDial(a, kind, IdleDial)
           /\ last' = Call("initiate_connection", a, 0, r.ret)
    /\ tick' = NoTick
    /\ UNCHANGED <<now, maint_fixed>>

\* What the handshake task meets: an I/O or Noise error at any point, or a
\* reply of the responder that is empty, carries the node's own id, carries
\* another protocol version, or carries an acceptable Version.
Reply == {"io_error", "zero_length", "own_node_id", "other_version", "version"}

ReplyOp(reply) ==
    CASE reply = "io_error"      -> "handshake_io_error"
      [] reply = "zero_length"   -> "handshake_zero_length"
      [] reply = "own_node_id"   -> "handshake_own_node_id"
      [] reply = "other_version" -> "handshake_other_version"
      [] reply = "version"       -> "handshake_version"

\* handshake that does not compare the protocol version of the reply.
Mutant_handshake_any_version(st, remote_address, reply, t) ==
    IF reply \in {"version", "other_version"}
        THEN LET r == Node_set_connected(st, remote_address, remote_address, t)
             IN  [st |-> r.st, ret |-> r.ret, sent |-> 3]
    ELSE IF reply = "io_error"
        THEN [st |-> st, ret |-> "Io", sent |-> 1]
    ELSE IF reply = "zero_length"
        THEN [st |-> st, ret |-> "InvalidHandshake", sent |-> 1]
    ELSE [st |-> st, ret |-> "SelfConnectAttempt", sent |-> 2]

\* The handshake task of initiate_connection: "-> e", "<- e, ee, s, es", the
\* checks of the peer's Version, "-> s, se, psk" and
\* Node::set_connected(remote_address, remote_address, ..). `sent` counts the
\* handshake messages that went over the wire.
Node_handshake(st, remote_address, reply, t) ==
    IF reply = "io_error"
        THEN [st |-> st, ret |-> "Io", sent |-> 1]
    ELSE IF reply = "zero_length"
        THEN [st |-> st, ret |-> "InvalidHandshake", sent |-> 1]
    ELSE IF reply = "own_node_id"
        THEN [st |-> st, ret |-> "SelfConnectAttempt", sent |-> 2]
    ELSE IF reply = "other_version"
        THEN [st |-> st, ret |-> "InvalidHandshake", sent |-> 2]
    ELSE LET r == Node_set_connected(st, remote_address, remote_address, t)
         IN  [st |-> r.st, ret |-> r.ret, sent |-> 3]

\* The handshake task runs to its end. The caller that still waits for it
\* matches on the result; after the deadline nobody looks at it.
handshake(a, kind, reply) ==
    /\ dials[a][kind].pc = "handshake"
    /\ reply = "version" => MayConnect(a)
    /\ LET r == Node_handshake(NodeState, a, reply, now)
       IN  /\ SetNode(IF dials[a][kind].timed_out THEN r.st
                      ELSE DialResult(r.st, kind, a, r.ret, now))
           /\ SetDial(a, kind, IdleDial)
           /\ last' = Call(ReplyOp(reply), a, r.sent, r.ret)
    /\ tick' = NoTick
    /\ UNCHANGED <<now, maint_fixed>>

\* The deadline of tokio::time::timeout passes: the caller gets
\* HandshakeTimeout; the handshake task is not aborted and runs on.
handshake_timeout(a, kind) ==
    /\ dials[a][kind].pc = "handshake"
    /\ ~dials[a][kind].timed_out
    /\ SetNode(DialResult(NodeState, kind, a, "HandshakeTimeout", now))
    /\ SetDial(a, kind, [dials[a][kind] EXCEPT !.timed_out = TRUE])
    /\ last' = Call("handshake_timeout", a, 0, "HandshakeTimeout")
    /\ tick' = NoTick
    /\ UNCHANGED <<now, maint_fixed>>

NextMaint ==
    \/ \E l \in Addr : inbound_connected(l)
    \/ \E a \in Addr : peer_closed(a)
    \/ \E a \in NodeAddr : process_inbound_peers({a})
    \/ update_peers
    \/ \E a \in NodeAddr, kind \in DialKind : initiate_connection_begin(a, kind)
    \/ \E a \in NodeAddr, kind \in DialKind, reply \in Reply : handshake(a, kind, reply)
    \/ \E a \in NodeAddr, kind \in DialKind : handshake_timeout(a, kind)

SpecMaint == InitMaint /\ [][NextMaint]_vars

\* --- connection attempts run to their end: the maintenance loop of a regular
\* node with room for every peer. The runtime keeps polling its tasks: a
\* spawned attempt makes its checks, a handshake task ends with a reply or an
\* I/O error unless its deadline passes first, and update_peers runs on its
\* interval.

InitAttempts ==
    /\ InitMaint
    /\ ~is_bootnode
    /\ config.max_peers = MaxMaxPeers

SpecAttempts ==
    /\ InitAttempts
    /\ [][NextMaint]_vars
    /\ WF_vars(\E a \in NodeAddr, kind \in DialKind : initiate_connection_begin(a, kind))
    /\ WF_vars(\E a \in NodeAddr, kind \in DialKind, reply \in Reply : handshake(a, kind, reply))
    /\ WF_vars(update_peers)

\* ------------------------------- concurrent Node::initiate_connection

\* The tasks spawned by connect_to_disconnected_peers run at the same time,
\* each calling initiate_connection for its address and matching on the
\* result; nobody connects to the node. A step is one read or write of the
\* peer book, or the outcome of the handshake.

InitConnect ==
    /\ InitMaint
    /\ ~is_bootnode

connect_fixed == <<now, last, is_bootnode, sync_hist, task_state, config, dials, tick,
                   storage, net_vars>>

call_initiate_connection(p, a) ==
    /\ procs[p].pc = "idle"
    /\ procs' = [procs EXCEPT ![p] = [IdleProc EXCEPT !.pc = "I_num_connected",
                                        !.op = "initiate_connection", !.addr = a]]
    /\ UNCHANGED <<book_vars, channels, connect_fixed>>

\* can_connect: let num_connected = self.peer_book.number_of_connected_peers()
I_num_connected(p) ==
    /\ procs[p].pc = "I_num_connected"
    /\ procs' = [procs EXCEPT ![p].pc = "I_num_connecting",
                   ![p].ref = Cardinality(DOMAIN connected_peers)]
    /\ UNCHANGED <<book_vars, channels, connect_fixed>>

\* can_connect: let num_connecting = self.peer_book.number_of_connecting_peers()
\* and the comparison with max_peers; then the check for the node's own address
I_num_connecting(p) ==
    /\ procs[p].pc = "I_num_connecting"
    /\ LET num_connected  == procs[p].ref
           num_connecting == Cardinality(connecting_peers)
       IN  IF num_connected >= config.max_peers
              \/ num_connected + num_connecting >= config.max_peers
           THEN Return(p, "TooManyConnections")
           ELSE IF IsSelfAddress(procs[p].addr, config.own_address)
           THEN Return(p, "SelfConnectAttempt")
           ELSE Goto(p, "I_is_connecting")
    /\ UNCHANGED <<book_vars, channels, connect_fixed>>

\* if self.peer_book.is_connecting(remote_address) { return Err(..) }
I_is_connecting(p) ==
    /\ procs[p].pc = "I_is_connecting"
    /\ IF procs[p].addr \in connecting_peers
       THEN Return(p, "PeerAlreadyConnecting")
       ELSE Goto(p, "I_is_connected")
    /\ UNCHANGED <<book_vars, channels, connect_fixed>>

\* if self.peer_book.is_connected(remote_address) { return Err(..) }
I_is_connected(p) ==
    /\ procs[p].pc = "I_is_connected"
    /\ IF procs[p].addr \in DOMAIN connected_peers
       THEN Return(p, "PeerAlreadyConnected")
       ELSE Goto(p, "I_set_connecting")
    /\ UNCHANGED <<book_vars, channels, connect_fixed>>

\* self.peer_book.set_connecting(remote_address)?: its is_connected check
I_set_connecting(p) ==
    /\ procs[p].pc = "I_set_connecting"
    /\ IF procs[p].addr \in DOMAIN connected_peers
       THEN Return(p, "PeerAlreadyConnected")
       ELSE Goto(p, "I_insert")
    /\ UNCHANGED <<book_vars, channels, connect_fixed>>

\* set_connecting: self.connecting_peers.write().insert(address); the
\* handshake task is spawned
I_insert(p) ==
    /\ procs[p].pc = "I_insert"
    /\ connecting_peers' = connecting_peers \cup {procs[p].addr}
    /\ Goto(p, "I_handshake")
    /\ UNCHANGED <<connected_peers, disconnected_peers, channels, connect_fixed>>

\* The handshake task runs to its end. The caller that still waits for it
\* returns its result to the spawned task, which matches on it; after the
\* deadline nobody looks at it.
I_handshake(p, reply) ==
    /\ procs[p].pc \in {"I_handshake", "I_orphan"}
    /\ LET r == Node_handshake(NodeState, procs[p].addr, reply, now)
       IN  IF procs[p].pc = "I_orphan"
           THEN SetNode(r.st) /\ Goto(p, "done")
           ELSE /\ SetNode(DialResult(r.st, "peer", procs[p].addr, r.ret, now))
                /\ Return(p, r.ret)
    /\ UNCHANGED connect_fixed

\* The deadline of tokio::time::timeout passes: initiate_connection returns
\* HandshakeTimeout and the spawned task disconnects from the peer; the
\* handshake task is not aborted and runs on.
I_timeout(p) ==
    /\ procs[p].pc = "I_handshake"
    /\ SetNode(DialResult(NodeState, "peer", procs[p].addr, "HandshakeTimeout", now))
    /\ procs' = [procs EXCEPT ![p].pc = "I_orphan", ![p].ret = "HandshakeTimeout"]
    /\ UNCHANGED connect_fixed

NextConnect ==
    \/ \E p \in Lockers, a \in NodeAddr : call_initiate_connection(p, a)
    \/ \E p \in Lockers : I_num_connected(p)
    \/ \E p \in Lockers : I_num_connecting(p)
    \/ \E p \in Lockers : I_is_connecting(p)
    \/ \E p \in Lockers : I_is_connected(p)
    \/ \E p \in Lockers : I_set_connecting(p)
    \/ \E p \in Lockers : I_insert(p)
    \/ \E p \in Lockers, reply \in Reply : I_handshake(p, reply)
    \/ \E p \in Lockers : I_timeout(p)

SpecConnect == InitConnect /\ [][NextConnect]_vars

\* ------------------------------------------- the tasks of a connection

\* A connection has a reader and a writer task, spawned and registered by
\* Node::set_connected. PeerInfo::set_disconnected drains the handles; what
\* becomes of each task afterwards is followed second by second.

\* tokio::time::timeout(Duration::from_secs(5), handle)
GraceSecs == 5

\* set_disconnected that aborts every drained handle.
Mutant_Drained_all_aborted(tasks) ==
    [i \in 1..Len(tasks) |-> [kind |-> tasks[Len(tasks) + 1 - i].kind, effect |-> "abort"]]

\* for (handle, abortable) in self.tasks.lock().drain(..).rev(): what is done
\* with each handle, in the order of the loop.
Drained_handles(tasks) ==
    [i \in 1..Len(tasks) |->
        LET e == tasks[Len(tasks) + 1 - i]
        IN  [kind |-> e.kind, effect |-> IF e.abortable THEN "abort" ELSE "await"]]

\* handle.abort() ends a task that still runs; a handle that is awaited is
\* moved into a newly spawned task that starts its 5 seconds.
RECURSIVE Handle_after(_, _)
Handle_after(h, todo) ==
    IF todo = << >> THEN h
    ELSE LET e  == Head(todo)
             h1 == IF e.effect = "abort"
                   THEN [h EXCEPT ![e.kind] = IF @ = "running" THEN "aborted" ELSE @]
                   ELSE [h EXCEPT !.waiter = "waiting", !.waited = 0]
         IN  Handle_after(h1, Tail(todo))

InitShutdown ==
    /\ connecting_peers = {}
    /\ connected_peers = EmptyMap
    /\ disconnected_peers = EmptyMap
    /\ now = 1
    /\ last = NoCall
    /\ is_bootnode = FALSE
    /\ sync_hist = NoSyncHist
    /\ InitConc

shutdown_fixed == <<now, is_bootnode, sync_hist, procs, task_state, config, dials, tick,
                    storage, sync, inbound, effects, topology, metrics, gauges>>

\* Node::initiate_connection got as far as PeerBook::set_connecting.
attempt_started(a) ==
    /\ SetBook(PeerBook_set_connecting(Book, a).book)
    /\ last' = Call("set_connecting", a, None, PeerBook_set_connecting(Book, a).ret)
    /\ UNCHANGED <<channels, handles, shutdown_fixed>>

\* Node::set_connected for a peer listening on a: both tasks are spawned and
\* registered, the reader as abortable and the writer as not.
session_opened(a) ==
    /\ MayConnect(a)
    /\ handles[a] = NoHandle
    /\ LET r == Node_set_connected(NodeState, Ephemeral, a, now)
       IN  /\ SetNode(r.st)
           /\ handles' = IF r.ret = "Ok"
                         THEN [handles EXCEPT ![a].reader = "running",
                                              ![a].writer = "running"]
                         ELSE handles
           /\ last' = Call("set_connected", a, None, r.ret)
    /\ UNCHANGED shutdown_fixed

\* Node::disconnect_from_peer(a), from its first to its last line.
session_closed(a) ==
    /\ LET r      == PeerBook_set_disconnected(Book, a, now)
           tasks  == IF r.ret = "true" THEN connected_peers[a].tasks ELSE << >>
       IN  /\ SetNode(Node_disconnect_from_peer(NodeState, a, now))
           /\ handles' = [handles EXCEPT ![a] = Handle_after(@, Drained_handles(tasks))]
           /\ last' = Call("disconnect_from_peer", a, None, r.ret)
    /\ UNCHANGED shutdown_fixed

\* listen_for_outbound_messages returns: the writer task ends by itself.
writer_exits(a) ==
    /\ handles[a].writer = "running"
    /\ handles' = [handles EXCEPT ![a].writer = "exited"]
    /\ last' = Call("writer_exits", a, None, "unit")
    /\ UNCHANGED <<book_vars, channels, shutdown_fixed>>

\* A second of the detached task's timeout passes.
second_passes(a) ==
    /\ handles[a].waiter = "waiting"
    /\ handles[a].waited < GraceSecs
    /\ handles' = [handles EXCEPT ![a].waited = @ + 1]
    /\ last' = Call("second_passes", a, None, "unit")
    /\ UNCHANGED <<book_vars, channels, shutdown_fixed>>

\* The detached task is polled: the timeout future polls the handle first,
\* and gives up (with the warning) once its 5 seconds have passed. Giving up
\* drops the handle, which leaves the task running.
waiter_polled(a) ==
    /\ handles[a].waiter = "waiting"
    /\ handles[a].writer = "exited" \/ handles[a].waited = GraceSecs
    /\ handles' = [handles EXCEPT ![a].waiter = IF handles[a].writer = "exited"
                                                THEN "joined" ELSE "timed_out"]
    /\ last' = Call("waiter_polled", a, None, "unit")
    /\ UNCHANGED <<book_vars, channels, shutdown_fixed>>

NextShutdown ==
    \/ \E a \in Addr : attempt_started(a)
    \/ \E a \in Addr : session_opened(a)
    \/ \E a \in Addr : session_closed(a)
    \/ \E a \in Addr : writer_exits(a)
    \/ \E a \in Addr : second_passes(a)
    \/ \E a \in Addr : waiter_polled(a)

SpecShutdown == InitShutdown /\ [][NextShutdown]_vars

\* --- the maintenance loop over time: the clock advances between the steps,
\* Pongs are dispatched and failures registered, so that peers lose quality.

\* A regular node with room for every peer.
InitQuality ==
    /\ InitMaint
    /\ ~is_bootnode
    /\ config.max_peers = MaxMaxPeers

NextQuality ==
    \/ advance_clock
    \/ \E l \in Addr : inbound_connected(l)
    \/ \E a \in Addr : peer_closed(a)
    \/ \E a \in Addr : received_pong(a)
    \/ \E a \in Addr : register_failure(a)
    \/ \E a \in Addr : process_inbound_peers({a})
    \/ update_peers
    \/ \E a \in Addr, kind \in DialKind : initiate_connection_begin(a, kind)
    \/ \E a \in Addr, kind \in DialKind : handshake(a, kind, "version")

SpecQuality == InitQuality /\ [][NextQuality]_vars

\* ------------------------------------------- the broadcasts of update_peers
\*
\* A node with room for every peer, with or without a sync layer whose chain
\* grows while peers come and go.

Syncs ==
    {NoSync} \cup { [attached |-> TRUE, current_block_height |-> h] : h \in 0..MaxHeight }

InitPing ==
    /\ connecting_peers = {}
    /\ connected_peers = EmptyMap
    /\ disconnected_peers = EmptyMap
    /\ now = 1
    /\ last = NoCall
    /\ is_bootnode \in BOOLEAN
    /\ sync_hist = NoSyncHist
    /\ channels = EmptyMap
    /\ procs = [p \in Proc |-> IdleProc]
    /\ task_state = [p \in Proc |-> [k \in TaskKind |-> "none"]]
    /\ config \in { c \in Configs : c.max_peers = MaxMaxPeers }
    /\ dials = NoDials
    /\ tick = NoTick
    /\ storage = NoStorage
    /\ sync \in Syncs
    /\ inbound = NoInbound
    /\ effects = NoEffects
    /\ topology = NoTopology
    /\ metrics = NoMetrics
    /\ gauges = NoGauges
    /\ handles = NoHandles

\* The sync layer commits a block: its storage reports one more.
block_committed ==
    /\ sync.attached
    /\ sync.current_block_height < MaxHeight
    /\ sync' = [sync EXCEPT !.current_block_height = @ + 1]
    /\ last' = Call("block_committed", None, None, "unit")
    /\ tick' = NoTick
    /\ UNCHANGED <<book_vars, now, channels, dials, is_bootnode, config, storage,
                   sync_hist, procs, task_state, inbound, effects, topology, metrics,
                   gauges, handles>>

NextPing ==
    \/ \E l \in Addr : inbound_connected(l)
    \/ \E a \in Addr : peer_closed(a)
    \/ block_committed
    \/ update_peers
    \/ \E a \in Addr, kind \in DialKind : initiate_connection_begin(a, kind)
    \/ \E a \in Addr, kind \in DialKind : handshake(a, kind, "version")

SpecPing == InitPing /\ [][NextPing]_vars

\* ------------------------------------------------------ the network topology

\* A Connection is the pair it was built from; PartialEq ignores the
\* orientation.
Connection_eq(x, y) ==
    \/ x[1] = y[2] /\ x[2] = y[1]
    \/ x[1] = y[1] /\ x[2] = y[2]

\* A hash that depends on the orientation of the pair.
Mutant_hash_in_stored_order(x) == x

\* Hash for Connection: what it feeds to the hasher, in order.
Connection_hash(x) ==
    IF x[1] > x[2] THEN <<x[2], x[1]>> ELSE <<x[1], x[2]>>

\* HashSet<Connection>: an element is found by its hash first and by equality
\* among the elements of that hash.
HashSet_contains(set, x) ==
    \E e \in set : Connection_hash(e) = Connection_hash(x) /\ Connection_eq(e, x)

\* HashSet::insert keeps the element it already has.
HashSet_insert(set, x) == IF HashSet_contains(set, x) THEN set ELSE set \cup {x}

RECURSIVE HashSet_extend(_, _)
HashSet_extend(set, items) ==
    IF items = {} THEN set
    ELSE LET x == CHOOSE y \in items : TRUE
         IN  HashSet_extend(HashSet_insert(set, x), items \ {x})

\* An update that only ever adds connections.
Mutant_update_keeps_all(connections, source, peers) ==
    HashSet_extend(connections, { <<source, peer>> : peer \in peers })

\* NetworkTopology::update.
NetworkTopology_update(connections, source, peers) ==
    LET new_connections == HashSet_extend({}, { <<source, peer>> : peer \in peers })
        connections_to_remove ==
            { c \in connections :
                /\ ~HashSet_contains(new_connections, c)
                /\ (c[1] = source \/ c[2] = source) }
        retained == { c \in connections : ~HashSet_contains(connections_to_remove, c) }
    IN  HashSet_extend(retained, new_connections)

\* ------------------------------------------------------------ the dispatcher

\* A message passed to the outbound router.
Sent(message) == [op |-> "send_request", addr |-> message.direction.addr,
                  payload |-> message.payload]

\* A call on the consensus object.
Called(op, source) == [op |-> op, addr |-> source, payload |-> NoPayload]

\* Node::send_peers: SHARED_PEER_COUNT exceeds the peers a node has here, so
\* choose_multiple returns every connected peer but the requester.
Node_send_peers(b, remote_address) ==
    Message_new(Outbound(remote_address),
                Payload("Peers", None, DOMAIN b.connected \ {remote_address}))

\* What the consensus object answers: whether a fallible call fails, whether
\* is_syncing_blocks() holds, and whether should_sync_blocks() holds and the
\* peer book is not yet syncing with the source.
Envs == [result : {"Ok", "Err"}, syncing : BOOLEAN, should_sync : BOOLEAN]

\* A dispatcher whose bootnode filter lets Pings through.
Mutant_bootnode_answers_pings(bootnode, message) ==
    /\ bootnode
    /\ ~(message.payload.name \in {"GetPeers", "Ping"} \/ message.direction = Internal)

\* The bootnode filter: whether the message is ignored.
BootnodeIgnores(bootnode, message) ==
    /\ bootnode
    /\ ~(message.payload.name = "GetPeers" \/ message.direction = Internal)

\* The sync decision the Ping arm takes when consensus is attached.
SyncDecision(sy, source, block_height, env) ==
    IF ~sy.attached THEN << >>
    ELSE IF block_height > sy.current_block_height + 1 /\ env.should_sync
    THEN << Called("register_block_sync_attempt", None), Called("update_blocks", source) >>
    ELSE << Called("finished_syncing_blocks", None) >>

\* A Ping arm that answers once the sync decision is taken.
Mutant_pong_after_decision(sy, source, block_height, env) ==
    SyncDecision(sy, source, block_height, env)
    \o << Sent(Message_new(Outbound(source), Payload("Pong", None, {}))) >>

\* The Ping arm of the dispatcher: what it submits and calls, in order.
PingArm(sy, source, block_height, env) ==
    << Sent(Message_new(Outbound(source), Payload("Pong", None, {}))) >>
    \o SyncDecision(sy, source, block_height, env)

\* A dispatcher that takes membership payloads from any direction.
Mutant_membership_from_anyone(direction) == TRUE

\* The condition guarding the ConnectingTo, ConnectedTo and Disconnect arms.
IsInternal(direction) == direction = Internal

\* Node::process_incoming_messages on a received message: the node it leaves,
\* what it returns ("panic" when it unwinds) and what it submitted and called.
Node_process_incoming_messages(st, topo, cfg, bootnode, sy, message, env, t) ==
    LET direction == message.direction
        payload == message.payload
        Done(s, tp, ret, out) == [st |-> s, topology |-> tp, ret |-> ret, out |-> out]
    IN  IF BootnodeIgnores(bootnode, message)
        THEN Done(st, topo, "Ok", << >>)
        ELSE
        LET has_source == direction.kind = "Inbound"
            source == direction.addr
            st1 == IF has_source
                   THEN [st EXCEPT !.book = PeerBook_register_message(st.book, source, t).book]
                   ELSE st
            Panic == Done(st1, topo, "panic", << >>)
            Quiet == Done(st1, topo, "Ok", << >>)
            \* a call on self.consensus(): unwinds without consensus or source
            Consensus(op, needs_source, gated, fallible) ==
                IF ~sy.attached THEN Panic
                ELSE IF gated /\ env.syncing THEN Quiet
                ELSE IF needs_source /\ ~has_source THEN Panic
                ELSE Done(st1, topo,
                          IF fallible THEN env.result ELSE "Ok",
                          << Called(op, IF needs_source THEN source ELSE None) >>)
        IN  CASE payload.name = "ConnectingTo" ->
                   IF IsInternal(direction)
                   THEN LET r == PeerBook_set_connecting(st1.book, payload.n)
                        IN  IF r.ret = "Ok"
                            THEN Done([st1 EXCEPT !.book = r.book], topo, "Ok", << >>)
                            ELSE Done(st1, topo, "Err", << >>)
                   ELSE Quiet
              [] payload.name = "ConnectedTo" ->
                   IF IsInternal(direction)
                   THEN Done([st1 EXCEPT !.book =
                                 PeerBook_set_connected(@, payload.n, payload.listener, t).book],
                             topo, "Ok", << >>)
                   ELSE Quiet
              [] payload.name = "Transaction" ->
                   Consensus("received_transaction", TRUE, FALSE, TRUE)
              [] payload.name = "Block" ->
                   Consensus("received_block", TRUE, FALSE, TRUE)
              [] payload.name = "GetBlocks" ->
                   Consensus("received_get_blocks", TRUE, TRUE, TRUE)
              [] payload.name = "GetMemoryPool" ->
                   Consensus("received_get_memory_pool", TRUE, TRUE, TRUE)
              [] payload.name = "MemoryPool" ->
                   Consensus("received_memory_pool", FALSE, FALSE, TRUE)
              [] payload.name = "GetSync" ->
                   Consensus("received_get_sync", TRUE, TRUE, TRUE)
              [] payload.name = "SyncBlock" ->
                   IF ~sy.attached \/ ~has_source THEN Panic
                   ELSE IF env.result = "Err"
                   THEN Done(st1, topo, "Err", << Called("received_block", source) >>)
                   ELSE LET r == PeerBook_got_sync_block(st1.book, source)
                        IN  Done([st1 EXCEPT !.book = r.book], topo, "Ok",
                                 << Called("received_block", source) >> \o
                                 IF r.ret = "true"
                                 THEN << Called("finished_syncing_blocks", None) >>
                                 ELSE << >>)
              [] payload.name = "Sync" ->
                   IF ~has_source THEN Panic
                   ELSE LET r == PeerBook_expecting_sync_blocks(st1.book, source, payload.n)
                        IN  Done([st1 EXCEPT !.book = r.book], topo,
                                 IF sy.attached THEN "Ok" ELSE "panic",
                                 IF sy.attached
                                 THEN << Called("received_sync", source) >>
                                 ELSE << >>)
              [] payload.name = "Disconnect" ->
                   IF IsInternal(direction)
                   THEN Done(Node_disconnect_from_peer(st1, payload.n, t), topo, "Ok", << >>)
                   ELSE Quiet
              [] payload.name = "GetPeers" ->
                   IF has_source
                   THEN Done(st1, topo, "Ok", << Sent(Node_send_peers(st1.book, source)) >>)
                   ELSE Panic
              [] payload.name = "Peers" ->
                   Done([st1 EXCEPT !.book = Node_process_inbound_peers(@, cfg, payload.peers)],
                        IF topo.tracked /\ has_source
                        THEN [topo EXCEPT !.connections =
                                 NetworkTopology_update(@, source, payload.peers)]
                        ELSE topo,
                        "Ok", << >>)
              [] payload.name = "Ping" ->
                   IF ~has_source THEN Panic
                   ELSE Done(st1, topo, "Ok", PingArm(sy, source, payload.n, env))
              [] payload.name = "Pong" ->
                   IF has_source
                   THEN Done([st1 EXCEPT !.book = PeerBook_received_pong(@, source, t).book],
                             topo, "Ok", << >>)
                   ELSE Panic
              [] OTHER -> Quiet


\* --- the inbound channel and the dispatcher task

\* The messages of peer a that were registered or wait in the channel.
Pending(a) ==
    Cardinality({ i \in DOMAIN inbound.queue : inbound.queue[i].direction = Inbound(a) })
    + (IF a \in DOMAIN connected_peers
       THEN connected_peers[a].quality.num_messages_received
       ELSE IF a \in DOMAIN disconnected_peers
       THEN disconnected_peers[a].quality.num_messages_received
       ELSE 0)

\* The connections peer a has made or that wait in the channel.
Sessions(a) ==
    Cardinality({ i \in DOMAIN inbound.queue :
                    /\ inbound.queue[i].payload.name = "ConnectedTo"
                    /\ inbound.queue[i].payload.listener = a })
    + (IF a \in DOMAIN connected_peers
       THEN connected_peers[a].connected_count
       ELSE IF a \in DOMAIN disconnected_peers
       THEN disconnected_peers[a].connected_count
       ELSE 0)

disp_fixed == <<now, dials, is_bootnode, config, storage, sync_hist, procs, task_state, sync,
                metrics, gauges, handles>>

\* A sender of the inbound channel (a reader task, the listener, a connecting
\* task) sends a message while the channel has room.
enqueue(message, capacity) ==
    /\ ~inbound.closed
    /\ inbound.receiver = "held"
    /\ Len(inbound.queue) < capacity
    /\ message.direction.kind = "Inbound" => Pending(1) + Pending(2) < MaxInbound
    /\ message.payload.name = "ConnectedTo" => Sessions(message.payload.listener) < MaxSessions
    /\ inbound' = [inbound EXCEPT !.queue = Append(@, message)]
    /\ effects' = NoEffects
    /\ last' = Call("enqueue", None, None, "unit")
    /\ tick' = NoTick
    /\ UNCHANGED <<book_vars, channels, topology, disp_fixed>>

\* Every sender of the inbound channel is dropped.
senders_dropped ==
    /\ ~inbound.closed
    /\ inbound' = [inbound EXCEPT !.closed = TRUE]
    /\ effects' = NoEffects
    /\ last' = Call("senders_dropped", None, None, "unit")
    /\ tick' = NoTick
    /\ UNCHANGED <<book_vars, channels, topology, disp_fixed>>

\* A loop that ends when process_incoming_messages returns an error.
Mutant_loop_ends_on_error(ret) ==
    IF ret = "panic" THEN "unwound"
    ELSE IF ret \in {"Err", "ReceiverFailedToParse"} THEN "dropped"
    ELSE "held"

\* The dispatcher task after an iteration of its loop: it logs an error and
\* goes on, and it is gone once the handler has unwound.
Supervised(ret) == IF ret = "panic" THEN "unwound" ELSE "held"

\* One iteration of the dispatcher loop of start_services: a call of
\* process_incoming_messages, which returns once recv() has yielded.
process_incoming_messages(env) ==
    /\ inbound.receiver = "held"
    /\ IF inbound.queue # << >>
       THEN LET message == Head(inbound.queue)
                r == Node_process_incoming_messages(NodeState, topology, config,
                                                    is_bootnode, sync, message, env, now)
            IN  /\ SetNode(r.st)
                /\ topology' = r.topology
                /\ inbound' = [inbound EXCEPT
                                 !.queue = Tail(@),
                                 !.receiver = Supervised(r.ret)]
                /\ effects' = [message |-> message, ret |-> r.ret, out |-> r.out]
                /\ last' = Call(message.payload.name, message.direction.addr,
                                message.payload.n, r.ret)
       ELSE /\ inbound.closed
            /\ inbound' = [inbound EXCEPT !.receiver = Supervised("ReceiverFailedToParse")]
            /\ effects' = [NoEffects EXCEPT !.ret = "ReceiverFailedToParse"]
            /\ last' = Call("recv", None, None, "ReceiverFailedToParse")
            /\ UNCHANGED <<book_vars, channels, topology>>
    /\ tick' = NoTick
    /\ UNCHANGED disp_fixed

Directions == {Internal, Outbound(2)} \cup { Inbound(a) : a \in Addr }

\* The payloads messages carry here.
Payloads ==
    { Payload(name, a, {}) : name \in {"ConnectingTo", "Disconnect"}, a \in Addr }
    \cup { ConnectedTo(a, a) : a \in Addr }
    \cup { Payload(name, None, {}) :
             name \in {"GetPeers", "Pong", "Transaction", "Unknown"} }
    \cup { Payload("Peers", None, {2}) }
    \cup { Ping(h) : h \in {0, MaxHeight} }

Messages == { Message_new(d, p) : d \in Directions, p \in Payloads }

\* A node, bootnode or not, with or without consensus, whose inbound channel
\* holds one message at a time.
InitDispatch ==
    /\ connecting_peers = {}
    /\ connected_peers = EmptyMap
    /\ disconnected_peers = EmptyMap
    /\ now = 1
    /\ last = NoCall
    /\ is_bootnode \in BOOLEAN
    /\ sync_hist = NoSyncHist
    /\ channels = EmptyMap
    /\ procs = [p \in Proc |-> IdleProc]
    /\ task_state = [p \in Proc |-> [k \in TaskKind |-> "none"]]
    /\ config \in { c \in Configs : c.max_peers = MaxMaxPeers /\ c.min_peers = 1 }
    /\ dials = NoDials
    /\ tick = NoTick
    /\ storage = NoStorage
    /\ sync \in { sy \in Syncs : sy.current_block_height = 0 }
    /\ inbound = NoInbound
    /\ effects = NoEffects
    /\ topology = NoTopology
    /\ metrics = NoMetrics
    /\ gauges = NoGauges
    /\ handles = NoHandles

NextDispatch ==
    \/ \E message \in Messages : enqueue(message, 1)
    \/ \E env \in Envs : process_incoming_messages(env)

SpecDispatch == InitDispatch /\ [][NextDispatch]_vars

\* --- the dispatcher loop over time

\* Messages that queue up at a regular node: a connecting task announces peer
\* 2 and its connection, more than once, and peer 2 sends a transaction and a
\* Ping.
ServeMessages ==
    { Message_new(Internal, Payload("ConnectingTo", 2, {})),
      Message_new(Internal, ConnectedTo(2, 2)),
      Message_new(Inbound(2), Payload("Transaction", None, {})),
      Message_new(Inbound(2), Ping(0)) }

InitServe ==
    /\ InitDispatch
    /\ ~is_bootnode

NextServe ==
    \/ \E message \in ServeMessages : enqueue(message, MaxQueue)
    \/ senders_dropped
    \/ \E env \in Envs : process_incoming_messages(env)

\* The dispatcher task is scheduled as long as it exists: it takes a message
\* that waits in the channel, and notices a closed channel.
SpecServe ==
    /\ InitServe
    /\ [][NextServe]_vars
    /\ WF_vars(\E env \in Envs : process_incoming_messages(env))

\* --- peer lists

\* What a regular node receives while peers gossip: the lists of its peers,
\* which name the node itself, its peers and addresses it has not heard of, and
\* the membership messages of its own tasks.
GossipMessages ==
    { Message_new(Inbound(a), Payload("Peers", None, S)) :
        a \in Addr, S \in {{}, {2}, {1, OwnAddress}, {1, 2, OwnAddress}} }
    \cup { Message_new(Internal, Payload(name, a, {})) :
              name \in {"ConnectingTo", "Disconnect"}, a \in Addr }
    \cup { Message_new(Internal, ConnectedTo(a, a)) : a \in Addr }

\* A regular node without consensus, tracking the topology or not.
InitGossip ==
    /\ connecting_peers = {}
    /\ connected_peers = EmptyMap
    /\ disconnected_peers = EmptyMap
    /\ now = 1
    /\ last = NoCall
    /\ is_bootnode = FALSE
    /\ sync_hist = NoSyncHist
    /\ channels = EmptyMap
    /\ procs = [p \in Proc |-> IdleProc]
    /\ task_state = [p \in Proc |-> [k \in TaskKind |-> "none"]]
    /\ config \in { c \in Configs : c.max_peers = MaxMaxPeers /\ c.min_peers = 1 }
    /\ dials = NoDials
    /\ tick = NoTick
    /\ storage = NoStorage
    /\ sync = NoSync
    /\ inbound = NoInbound
    /\ effects = NoEffects
    /\ topology \in { [NoTopology EXCEPT !.tracked = tracked] : tracked \in BOOLEAN }
    /\ metrics = NoMetrics
    /\ gauges = NoGauges
    /\ handles = NoHandles

NextGossip ==
    \/ \E message \in GossipMessages : enqueue(message, 1)
    \/ \E env \in Envs : process_incoming_messages(env)

SpecGossip == InitGossip /\ [][NextGossip]_vars

\* ------------------------------------------- topology and network metrics

F64_NaN == [kind |-> "nan", neg |-> FALSE, num |-> 0, den |-> 1]

\* x - y for integral x and y; a zero difference is +0.0.
F64_sub(x, y) ==
    LET vx == IF x.neg THEN 0 - x.num ELSE x.num
        vy == IF y.neg THEN 0 - y.num ELSE y.num
        d  == vx - vy
    IN  [kind |-> "finite", neg |-> d < 0, num |-> IF d < 0 THEN 0 - d ELSE d, den |-> 1]

\* x * y for finite x and y; the sign of a zero product is the product of the
\* signs.
F64_mul(x, y) ==
    [kind |-> "finite", neg |-> x.neg # y.neg, num |-> x.num * y.num, den |-> x.den * y.den]

\* x / y for finite x and y: 0 / 0 is NaN and x / 0 an infinity.
F64_div(x, y) ==
    IF y.num = 0
    THEN IF x.num = 0 THEN F64_NaN
         ELSE [kind |-> "inf", neg |-> x.neg # y.neg, num |-> 0, den |-> 1]
    ELSE [kind |-> "finite", neg |-> x.neg # y.neg,
          num |-> x.num * y.den, den |-> x.den * y.num]

\* calculate_density(n, ac).
calculate_density(n, ac) ==
    LET pc == F64_div(F64_mul(n, F64_sub(n, F64_from(1))), F64_from(2))
    IN  F64_div(ac, pc)

RECURSIVE SumOf(_)
SumOf(counts) == IF counts = << >> THEN 0 ELSE Head(counts) + SumOf(Tail(counts))

\* total_connection_count over the nodes' numbers of connected peers.
total_connection_count(nodes) == SumOf(nodes) \div 2

network_density(nodes) ==
    calculate_density(F64_from(Len(nodes)), F64_from(total_connection_count(nodes)))

\* NetworkMetrics::new, as far as node_count, connection_count and density.
NetworkMetrics_new(nodes) ==
    [node_count |-> Len(nodes),
     connection_count |-> total_connection_count(nodes),
     density |-> network_density(nodes)]

TopoAddr == 1..MaxNodes

\* The networks measured: up to MaxNodes nodes, each connected to some of the
\* others.
Networks == UNION { [1..n -> 0..(IF n = 0 THEN 0 ELSE n - 1)] : n \in 0..MaxNodes }

\* A crawler that tracks the topology of a network it has not seen yet.
InitTopology ==
    /\ connecting_peers = {}
    /\ connected_peers = EmptyMap
    /\ disconnected_peers = EmptyMap
    /\ now = 1
    /\ last = NoCall
    /\ is_bootnode = FALSE
    /\ sync_hist = NoSyncHist
    /\ channels = EmptyMap
    /\ procs = [p \in Proc |-> IdleProc]
    /\ task_state = [p \in Proc |-> [k \in TaskKind |-> "none"]]
    /\ config = NoConfig
    /\ dials = NoDials
    /\ tick = NoTick
    /\ storage = NoStorage
    /\ sync = NoSync
    /\ inbound = NoInbound
    /\ effects = NoEffects
    /\ topology = [NoTopology EXCEPT !.tracked = TRUE]
    /\ metrics = NoMetrics
    /\ gauges = NoGauges
    /\ handles = NoHandles

topo_fixed == <<book_vars, now, is_bootnode, sync_hist, conc_vars, config, dials, tick,
                storage, sync, inbound, gauges, handles>>

\* NetworkTopology::update(source, peers); the arguments are kept as the
\* Peers message they came with.
topology_update(source, peers) ==
    /\ topology.tracked
    /\ topology' = [topology EXCEPT !.connections = NetworkTopology_update(@, source, peers)]
    /\ effects' = [NoEffects EXCEPT
                     !.message = Message_new(Inbound(source), Payload("Peers", None, peers))]
    /\ last' = Call("update", source, None, "unit")
    /\ UNCHANGED <<topo_fixed, metrics>>

\* A single Connection((a, b)) is inserted into the set.
connection_insert(a, b) ==
    /\ topology.tracked
    /\ topology' = [topology EXCEPT !.connections = HashSet_insert(@, <<a, b>>)]
    /\ effects' = NoEffects
    /\ last' = Call("insert", a, b,
                    IF HashSet_contains(topology.connections, <<a, b>>) THEN "false" ELSE "true")
    /\ UNCHANGED <<topo_fixed, metrics>>

\* NetworkMetrics::new(nodes), nodes given by their numbers of connected peers.
compute_metrics(nodes) ==
    /\ metrics' = NetworkMetrics_new(nodes)
    /\ effects' = NoEffects
    /\ last' = Call("NetworkMetrics_new", None, None, "unit")
    /\ UNCHANGED <<topo_fixed, topology>>

NextTopology ==
    \/ \E source \in TopoAddr, peers \in SUBSET TopoAddr : topology_update(source, peers)
    \/ \E a \in TopoAddr, b \in TopoAddr : connection_insert(a, b)
    \/ \E nodes \in Networks : compute_metrics(nodes)

SpecTopology == InitTopology /\ [][NextTopology]_vars

\* ---------------------------------------------------------------- storage

\* The peer book is saved to the ledger storage and loaded from it when the
\* node starts. `storage` holds the saved value, if any.

\* What serde writes of a PeerInfo: `quality` and `tasks` are skipped.
Serialized(info) ==
    [ address           |-> info.address,
      is_routable       |-> info.is_routable,
      first_connected   |-> info.first_connected,
      last_connected    |-> info.last_connected,
      last_disconnected |-> info.last_disconnected,
      connected_count   |-> info.connected_count ]

\* What serde reads back: the skipped fields are their defaults.
Deserialized(ser) ==
    [ PeerInfo_new(ser.address) EXCEPT
        !.is_routable       = ser.is_routable,
        !.first_connected   = ser.first_connected,
        !.last_connected    = ser.last_connected,
        !.last_disconnected = ser.last_disconnected,
        !.connected_count   = ser.connected_count ]

\* connected_peers() extended by disconnected_peers(): an address in both
\* maps keeps the disconnected record.
Extended(b) ==
    [ a \in DOMAIN b.connected \cup DOMAIN b.disconnected |->
        IF a \in DOMAIN b.disconnected THEN b.disconnected[a] ELSE b.connected[a] ]

\* From<&PeerBook> without the loopback filter.
Mutant_serialize_with_loopback(b) ==
    { Serialized(Extended(b)[a]) : a \in DOMAIN Extended(b) }

\* From<&PeerBook> for SerializedPeerBook.
SerializedPeerBook_from(b) ==
    { Serialized(Extended(b)[a]) :
        a \in { x \in DOMAIN Extended(b) : ~IsLoopback(Extended(b)[x].address) } }

\* From<SerializedPeerBook> for PeerBook.
PeerBook_from(ser) ==
    LET kept == { x \in ser : ~IsLoopback(x.address) }
    IN  [ connecting   |-> {},
          connected    |-> EmptyMap,
          disconnected |-> [ a \in { x.address : x \in kept } |->
                               Deserialized(CHOOSE x \in kept : x.address = a) ] ]

PeerBook_default == [connecting |-> {}, connected |-> EmptyMap, disconnected |-> EmptyMap]

\* PeerBook::load: the stored book, or a new one if there is none.
PeerBook_load(st) == IF st = << >> THEN PeerBook_default ELSE PeerBook_from(st[1])

\* A node that has nothing in storage starts.
InitStore ==
    /\ connecting_peers = {}
    /\ connected_peers = EmptyMap
    /\ disconnected_peers = EmptyMap
    /\ now = 1
    /\ last = NoCall
    /\ is_bootnode = FALSE
    /\ sync_hist = NoSyncHist
    /\ InitConc

store_fixed == <<now, is_bootnode, config, dials, tick, sync_hist, channels, procs, task_state,
                net_vars>>

\* Node::save_peer_book_to_storage.
save_peer_book_to_storage ==
    /\ storage' = << SerializedPeerBook_from(Book) >>
    /\ last' = Call("save_peer_book_to_storage", None, None, "Ok")
    /\ UNCHANGED <<book_vars, store_fixed>>

\* The node stops and starts again: PeerBook::load.
load ==
    /\ SetBook(PeerBook_load(storage))
    /\ last' = Call("load", None, None, "unit")
    /\ UNCHANGED <<storage, store_fixed>>

NextStore ==
    \/ \E a \in Addr : set_connecting(a)
    \/ \E a \in Addr : set_connected(a, None)
    \/ \E a \in Addr : set_disconnected(a)
    \/ \E a \in Addr : add_peer(a)
    \/ \E a \in Addr : set_unroutable(a)
    \/ save_peer_book_to_storage
    \/ load

SpecStore == InitStore /\ [][NextStore]_vars

\* ------------------------------------------------------------------ claims

Known(a) == a \in DOMAIN connected_peers \/ a \in DOMAIN disconnected_peers

\* What PeerInfo::new is documented to produce, written out field by field.
IsFreshInfo(info, a) ==
    /\ info.address = a
    /\ info.is_routable = TRUE
    /\ info.first_connected = None
    /\ info.last_connected = None
    /\ info.last_disconnected = None
    /\ info.connected_count = 0
    /\ info.quality.expecting_pong = FALSE
    /\ info.quality.last_seen = None
    /\ info.quality.failures = 0
    /\ info.quality.remaining_sync_blocks = [hi |-> 0, lo |-> 0]
    /\ info.tasks = << >>

\* C1, as stated: every address is in at most one of the connecting set, the
\* connected map and the disconnected map.
C1_AtMostOneState ==
    \A a \in Addr :
        /\ ~(a \in connecting_peers /\ a \in DOMAIN connected_peers)
        /\ ~(a \in connecting_peers /\ a \in DOMAIN disconnected_peers)
        /\ ~(a \in DOMAIN connected_peers /\ a \in DOMAIN disconnected_peers)

\* C1, amended: no address is in both the connected map and the disconnected
\* map (the connecting set may overlap either of them).
C1_ConnectedDisjointFromDisconnected ==
    \A a \in Addr : ~(a \in DOMAIN connected_peers /\ a \in DOMAIN disconnected_peers)

\* C1 witness: add_peer then set_connecting, as in
\* test_set_connecting_from_never_connected: a known disconnected peer that
\* is being connected to.
C1_Witness ==
    /\ last.op = "set_connecting"
    /\ last.ret = "Ok"
    /\ last.addr \in connecting_peers
    /\ last.addr \in DOMAIN disconnected_peers
    /\ \E a \in Addr : a \in DOMAIN connected_peers

\* C2, as stated: set_disconnected(addr) returns true if and only if addr was
\* in the connected map immediately before the call.
C2_TrueIffWasConnected ==
    [][ last'.op = "set_disconnected" =>
            ((last'.ret = "true") <=> (last'.addr \in DOMAIN connected_peers)) ]_vars

\* C3: after set_connected(addr, listener_opt) the listener is connected and
\* not disconnected, addr is not connecting, and the stored record is the one
\* held under listener in disconnected (a fresh one otherwise) with
\* connected_count one higher and the timestamps of this connection.
C3_SetConnectedPost ==
    [][ last'.op = "set_connected" =>
          LET addr     == last'.addr
              listener == IF last'.arg # None THEN last'.arg ELSE addr
              reused   == listener \in DOMAIN disconnected_peers
              stored   == connected_peers'[listener]
          IN  /\ listener \in DOMAIN connected_peers'
              /\ listener \notin DOMAIN disconnected_peers'
              /\ addr \notin connecting_peers'
              /\ stored.address = listener
              /\ stored.last_connected = now'
              /\ stored.quality.last_seen = now'
              /\ stored.tasks = << >>
              /\ IF reused
                 THEN LET old == disconnected_peers[listener]
                      IN  /\ stored.connected_count = old.connected_count + 1
                          /\ stored.is_routable = old.is_routable
                          /\ stored.last_disconnected = old.last_disconnected
                          /\ stored.first_connected =
                                 IF old.first_connected # None
                                 THEN old.first_connected ELSE now'
                          /\ stored.quality.failures = old.quality.failures
                 ELSE /\ stored.connected_count = 1
                      /\ stored.is_routable = TRUE
                      /\ stored.last_disconnected = None
                      /\ stored.first_connected = now'
                      /\ stored.quality.failures = 0 ]_vars

\* C3 witness: set_connecting, set_connected, set_disconnected, set_connected
\* on one address: the record of the first connection is reused at a later
\* time, and the address ends connected only.
C3_Witness ==
    /\ last.op = "set_connected"
    /\ last.arg = None
    /\ last.addr \in DOMAIN connected_peers
    /\ last.addr \notin connecting_peers
    /\ last.addr \notin DOMAIN disconnected_peers
    /\ IsLoopback(last.addr)
    /\ connected_peers[last.addr].connected_count = 2
    /\ connected_peers[last.addr].first_connected < connected_peers[last.addr].last_connected
    /\ connected_peers[last.addr].last_disconnected # None

\* C4, as stated: after set_disconnected(addr), addr is neither connecting nor
\* connected; a peer that was connected is now in disconnected with
\* expecting_pong cleared and no sync blocks expected; for a peer that was only
\* connecting the connected and disconnected maps are unchanged.
C4_SetDisconnectedPost ==
    [][ last'.op = "set_disconnected" =>
          LET addr == last'.addr
          IN  /\ addr \notin connecting_peers'
              /\ addr \notin DOMAIN connected_peers'
              /\ addr \in DOMAIN connected_peers =>
                    /\ addr \in DOMAIN disconnected_peers'
                    /\ disconnected_peers'[addr].quality.expecting_pong = FALSE
                    /\ disconnected_peers'[addr].quality.remaining_sync_blocks
                           = [hi |-> 0, lo |-> 0]
              /\ (addr \in connecting_peers /\ addr \notin DOMAIN connected_peers) =>
                    UNCHANGED <<connected_peers, disconnected_peers>> ]_vars

\* C5: set_connecting(addr) returns PeerAlreadyConnected and changes nothing
\* when addr is connected; otherwise it returns Ok, addr is connecting
\* afterwards, and nothing changes if addr was connecting already.
C5_SetConnecting ==
    [][ last'.op = "set_connecting" =>
          LET addr == last'.addr
          IN  IF addr \in DOMAIN connected_peers
              THEN /\ last'.ret = "PeerAlreadyConnected"
                   /\ UNCHANGED book_vars
              ELSE /\ last'.ret = "Ok"
                   /\ connecting_peers' = connecting_peers \cup {addr}
                   /\ UNCHANGED <<connected_peers, disconnected_peers>>
                   /\ addr \in connecting_peers => UNCHANGED book_vars ]_vars

\* C5 witness: set_connecting was refused for a connected peer.
C5_Witness ==
    /\ last.op = "set_connecting"
    /\ last.ret = "PeerAlreadyConnected"
    /\ last.addr \in DOMAIN connected_peers

\* C6: add_peer(addr) changes nothing when addr is connecting, connected or
\* disconnected; otherwise it only inserts a fresh record for addr into the
\* disconnected map.
C6_AddPeer ==
    [][ last'.op = "add_peer" =>
          LET addr == last'.addr
          IN  IF \/ addr \in connecting_peers
                 \/ addr \in DOMAIN connected_peers
                 \/ addr \in DOMAIN disconnected_peers
              THEN UNCHANGED book_vars
              ELSE /\ UNCHANGED <<connecting_peers, connected_peers>>
                   /\ DOMAIN disconnected_peers' = DOMAIN disconnected_peers \cup {addr}
                   /\ \A x \in DOMAIN disconnected_peers :
                          disconnected_peers'[x] = disconnected_peers[x]
                   /\ IsFreshInfo(disconnected_peers'[addr], addr) ]_vars

\* C6 witness: add_peer was called for an address that is being connected to
\* and is not otherwise known, while another peer is in the disconnected map.
C6_Witness ==
    /\ last.op = "add_peer"
    /\ last.addr \in connecting_peers
    /\ ~Known(last.addr)
    /\ \E x \in Addr : x \in DOMAIN disconnected_peers /\ IsFreshInfo(disconnected_peers[x], x)

\* C7, as stated: after remove_peer(addr), addr is in none of the three sets
\* and the membership of every other address is unchanged.
C7_RemovePeer ==
    [][ last'.op = "remove_peer" =>
          LET addr == last'.addr
          IN  /\ addr \notin connecting_peers'
              /\ addr \notin DOMAIN connected_peers'
              /\ addr \notin DOMAIN disconnected_peers'
              /\ \A x \in Addr \ {addr} :
                    /\ (x \in connecting_peers') <=> (x \in connecting_peers)
                    /\ (x \in DOMAIN connected_peers') <=> (x \in DOMAIN connected_peers)
                    /\ (x \in DOMAIN disconnected_peers')
                           <=> (x \in DOMAIN disconnected_peers) ]_vars

RecordOf(a) ==
    IF a \in DOMAIN connected_peers THEN connected_peers[a] ELSE disconnected_peers[a]

\* C8, as stated: except by remove_peer, a known peer stays known and its
\* record keeps its history: first_connected, once set, does not change and
\* connected_count does not decrease.
C8_RecordOutlivesAllButRemove ==
    [][ last'.op # "remove_peer" =>
          \A a \in Addr :
              Known(a) =>
                  /\ Known(a)'
                  /\ RecordOf(a).first_connected # None =>
                         RecordOf(a)'.first_connected = RecordOf(a).first_connected
                  /\ RecordOf(a)'.connected_count >= RecordOf(a).connected_count ]_vars

SetConnectedInFlight(l) ==
    \E p \in Proc : /\ procs[p].op = "set_connected"
                    /\ procs[p].lst = l
                    /\ procs[p].pc \notin {"idle", "done"}

\* C9, as stated: whenever no Node::set_connected call for a connected peer is
\* mid-execution, the peer has an outbound channel under its listener address
\* and exactly two registered tasks, an abortable reader and a non-abortable
\* writer.
C9_ChannelAndTwoTasks ==
    \A l \in DOMAIN connected_peers :
        ~SetConnectedInFlight(l) =>
            /\ l \in DOMAIN channels
            /\ Len(connected_peers[l].tasks) = 2
            /\ connected_peers[l].tasks[1].kind = "reader"
            /\ connected_peers[l].tasks[1].abortable
            /\ connected_peers[l].tasks[2].kind = "writer"
            /\ ~connected_peers[l].tasks[2].abortable

\* --- claims about the maintenance loop over time (SpecQuality)

\* C11: received_pong(p) for a connected p whose expecting_pong is set stores the
\* time since last_ping_sent in rtt_ms, clears expecting_pong and leaves
\* failures alone; with expecting_pong clear it increments failures by one and
\* leaves rtt_ms and expecting_pong alone. So of two Pongs after one
\* sending_ping only the second increments failures.
C11_ReceivedPong ==
    [][last'.op = "received_pong" =>
        LET p   == last'.addr
            old == connected_peers[p].quality
            new == connected_peers'[p].quality
        IN  /\ p \in DOMAIN connected_peers'
            /\ IF old.expecting_pong
               THEN /\ new.rtt_ms = Elapsed_ms(old.last_ping_sent, now)
                    /\ ~new.expecting_pong
                    /\ new.failures = old.failures
               ELSE /\ new.failures = old.failures + 1
                    /\ new.rtt_ms = old.rtt_ms
                    /\ new.expecting_pong = old.expecting_pong
            /\ ~new.expecting_pong]_vars

\* A second Pong after a single Ping has just been counted as a failure, the
\* round trip of the first one took a clock reading.
C11_Witness ==
    /\ last.op = "received_pong"
    /\ connected_peers[last.addr].quality.failures = 1
    /\ connected_peers[last.addr].quality.last_ping_sent # None
    /\ connected_peers[last.addr].quality.rtt_ms > 0

\* C17, as stated: the quality pass of an update_peers run disconnects a
\* connected peer if and only if the peer is not a configured bootnode and
\* its rtt_ms exceeds 1500, or its failures are at least 3, or its last_seen
\* is older than MAX_PEER_INACTIVITY_SECS; connected bootnodes stay.
C17_QualityPass ==
    [][last'.op = "update_peers" =>
        \A a \in DOMAIN connected_peers :
            LET quality == connected_peers[a].quality
                low     == \/ quality.rtt_ms > 1500
                           \/ quality.failures >= 3
                           \/ (now - quality.last_seen) * SecsPerReading
                                  > MAX_PEER_INACTIVITY_SECS
            IN  /\ a \notin tick'.kept <=> (a \notin config.bootnodes /\ low)
                /\ a \in config.bootnodes => a \in tick'.kept]_vars

\* C18, as stated, for the peers the quality pass looks at (those that are not
\* configured bootnodes): once the failures of a connected peer have reached
\* 3, the next update_peers run disconnects the peer: afterwards it is not in
\* the connected map and has no outbound channel.
C18_ThreeFailuresDisconnect ==
    [][last'.op = "update_peers" =>
        \A a \in DOMAIN connected_peers \ config.bootnodes :
            connected_peers[a].quality.failures >= 3 =>
                /\ a \notin DOMAIN connected_peers'
                /\ a \notin DOMAIN channels']_vars

\* --- claims about the stored peer book (SpecStore)

\* C12: what is saved are exactly the non-loopback peers of the connected and
\* the disconnected map, so neither loopback peers nor peers that are only in
\* connecting are persisted; a loaded PeerBook has empty connecting and
\* connected sets, and its disconnected map holds exactly the saved peers.
C12_SavedAndLoaded ==
    [][/\ last'.op = "save_peer_book_to_storage" =>
            { x.address : x \in storage'[1] } =
                { a \in DOMAIN connected_peers \cup DOMAIN disconnected_peers :
                    ~IsLoopback(a) }
       /\ (last'.op = "load" /\ storage # << >>) =>
            /\ connecting_peers' = {}
            /\ connected_peers' = EmptyMap
            /\ DOMAIN disconnected_peers' = { x.address : x \in storage[1] }
            /\ \A a \in DOMAIN disconnected_peers' :
                    Serialized(disconnected_peers'[a]) \in storage[1]]_vars

\* A book was loaded whose only peer was connected, and had never been
\* disconnected, when the book was saved.
C12_Witness ==
    /\ last.op = "load"
    /\ DOMAIN disconnected_peers = {2}
    /\ disconnected_peers[2].connected_count = 1
    /\ disconnected_peers[2].last_disconnected = None

\* --- claims about connection attempts and the maintenance loop (SpecMaint)

\* C13: initiate_connection(remote) returns TooManyConnections when
\* can_connect() is false, otherwise SelfConnectAttempt when remote is the
\* node's own address (as such, or as a loopback address with the node's
\* port), otherwise PeerAlreadyConnecting when remote is in the connecting
\* set, otherwise PeerAlreadyConnected when remote is in the connected map,
\* and in these cases neither the PeerBook nor the channels change; only when
\* none applies is remote added to connecting, before any handshake message.
C13_InitiateConnection ==
    [][last'.op = "initiate_connection" =>
        LET remote == last'.addr
            full   == Cardinality(DOMAIN connected_peers) + Cardinality(connecting_peers)
                          >= config.max_peers
            expect == IF full THEN "TooManyConnections"
                      ELSE IF remote \in {OwnAddress, OwnLoopback} THEN "SelfConnectAttempt"
                      ELSE IF remote \in connecting_peers THEN "PeerAlreadyConnecting"
                      ELSE IF remote \in DOMAIN connected_peers THEN "PeerAlreadyConnected"
                      ELSE "Ok"
        IN  /\ last'.ret = expect
            /\ expect # "Ok" => UNCHANGED <<book_vars, channels>>
            /\ expect = "Ok" =>
                  /\ connecting_peers' = connecting_peers \cup {remote}
                  /\ UNCHANGED <<connected_peers, disconnected_peers, channels>>
                  /\ last'.arg = 0
                  /\ \E kind \in DialKind : /\ dials[remote][kind].pc = "spawned"
                                             /\ dials'[remote][kind].pc = "handshake"]_vars

\* An attempt for a peer that is connected was refused while the node had
\* room, the last refusal of the chain.
C13_Witness ==
    /\ last.op = "initiate_connection"
    /\ last.ret = "PeerAlreadyConnected"
    /\ last.addr \in DOMAIN connected_peers
    /\ Cardinality(DOMAIN connected_peers) + Cardinality(connecting_peers) < config.max_peers

C15_SelfAndCapNotDemoted ==
    [][(/\ last'.op \in {"initiate_connection", "handshake_own_node_id"}
        /\ last'.ret \in {"SelfConnectAttempt", "TooManyConnections"}
        /\ Known(last'.addr)) =>
        LET a == last'.addr
        IN  IF a \in DOMAIN connected_peers'
            THEN connected_peers'[a].is_routable = RecordOf(a).is_routable
            ELSE /\ a \in DOMAIN disconnected_peers'
                 /\ disconnected_peers'[a].is_routable = RecordOf(a).is_routable]_vars

\* C16: the initiator neither marks the remote as connected nor registers a
\* channel for it when the reply has a zero length prefix (InvalidHandshake),
\* carries the initiator's own node_id (SelfConnectAttempt) or another
\* protocol version (InvalidHandshake); a handshake step that connects a peer
\* or registers a channel has exchanged all three handshake messages.
C16_HandshakeRejects ==
    [][/\ last'.op = "handshake_zero_length" =>
            last'.ret = "InvalidHandshake" /\ last'.arg = 1
       /\ last'.op = "handshake_own_node_id" =>
            last'.ret = "SelfConnectAttempt" /\ last'.arg = 2
       /\ last'.op = "handshake_other_version" =>
            last'.ret = "InvalidHandshake" /\ last'.arg = 2
       /\ last'.op \in {"handshake_zero_length", "handshake_own_node_id",
                        "handshake_other_version", "handshake_io_error"} =>
            /\ DOMAIN connected_peers' \subseteq DOMAIN connected_peers
            /\ DOMAIN channels' \subseteq DOMAIN channels
       /\ (/\ last'.op \in { ReplyOp(reply) : reply \in Reply }
           /\ \/ ~(DOMAIN connected_peers' \subseteq DOMAIN connected_peers)
              \/ ~(DOMAIN channels' \subseteq DOMAIN channels)) =>
            /\ last'.op = "handshake_version"
            /\ last'.arg = 3
            /\ last'.ret = "Ok"]_vars

\* A reply with another protocol version was rejected after two messages and
\* the remote is not connected.
C16_Witness ==
    /\ last.op = "handshake_other_version"
    /\ last.ret = "InvalidHandshake"
    /\ last.arg = 2
    /\ last.addr \notin DOMAIN connected_peers
    /\ last.addr \notin DOMAIN channels

\* C19: update_peers computes, from the counts read after the quality pass,
\* on a bootnode (connected - min_peers, max_peers - 2 * min_peers) and on a
\* regular node (connected - max_peers, min_peers - (connected + connecting)),
\* every subtraction saturating at 0; the run disconnects at most the first
\* number of peers and dials at most the second number of disconnected peers.
C19_Counts ==
    [][last'.op = "update_peers" =>
        LET connected  == tick'.number_of_connected_peers
            connecting == tick'.number_of_connecting_peers
            Sat(x, y)  == IF x >= y THEN x - y ELSE 0
            dialed     == { a \in NodeAddr : dials'[a]["peer"] # dials[a]["peer"] }
        IN  /\ connected = Cardinality(tick'.kept)
            /\ tick'.kept \subseteq DOMAIN connected_peers
            /\ connecting <= Cardinality(connecting_peers)
            /\ tick'.number_to_disconnect =
                   IF is_bootnode THEN Sat(connected, config.min_peers)
                   ELSE Sat(connected, config.max_peers)
            /\ tick'.number_to_connect =
                   IF is_bootnode THEN Sat(config.max_peers, 2 * config.min_peers)
                   ELSE Sat(config.min_peers, connected + connecting)
            /\ Cardinality(tick'.kept \ DOMAIN connected_peers') <= tick'.number_to_disconnect
            /\ Cardinality(dialed) <= tick'.number_to_connect
            /\ dialed \subseteq DOMAIN disconnected_peers']_vars

\* A bootnode with two connected peers has disconnected one of them and
\* dialed one disconnected peer in the same run.
C19_Witness ==
    /\ last.op = "update_peers"
    /\ is_bootnode
    /\ tick.number_of_connected_peers = 2
    /\ tick.number_to_disconnect = 1
    /\ tick.number_to_connect = 1
    /\ Cardinality(DOMAIN connected_peers) = 1
    /\ \E a \in NodeAddr : dials[a]["peer"].pc = "spawned"

\* C20, as stated: an update_peers run that finds zero connected peers starts
\* connection attempts for exactly the configured bootnodes other than the
\* node's own address; disconnected peers are dialed only in runs that find
\* at least one connected peer.
C20_BootnodesOrSample ==
    [][last'.op = "update_peers" =>
        LET started(kind) == { a \in NodeAddr : dials'[a][kind] # dials[a][kind] }
        IN  /\ tick'.number_of_connected_peers = 0 =>
                  /\ started("bootnode") = config.bootnodes \ {config.own_address}
                  /\ started("peer") = {}
            /\ started("peer") # {} => tick'.number_of_connected_peers >= 1]_vars

\* C20, as the code decides it: the bootnodes other than the own address are
\* dialed exactly in the runs that find zero connected peers; independently
\* of that, every run with a connect count other than 0 dials a sample of
\* the disconnected peers that are neither the own address nor a bootnode,
\* as many as the connect count or all of them if there are fewer.
C20_BootnodesAndSample ==
    [][last'.op = "update_peers" =>
        LET started(kind) == { a \in NodeAddr : dials'[a][kind] # dials[a][kind] }
            candidates    == (DOMAIN disconnected_peers' \ {config.own_address})
                                 \ config.bootnodes
            count         == tick'.number_to_connect
        IN  /\ started("bootnode") =
                  IF tick'.number_of_connected_peers = 0
                  THEN config.bootnodes \ {config.own_address}
                  ELSE {}
            /\ started("peer") \subseteq candidates
            /\ Cardinality(started("peer")) =
                  IF count < Cardinality(candidates) THEN count
                  ELSE Cardinality(candidates)]_vars

\* A run that found no connected peer has dialed the bootnode and a
\* disconnected peer.
C20_Witness ==
    /\ last.op = "update_peers"
    /\ tick.number_of_connected_peers = 0
    /\ dials[2]["bootnode"].pc = "spawned"
    /\ \E a \in NodeAddr : dials[a]["peer"].pc = "spawned"

\* ------------------------------------ claims about the broadcasts (SpecPing)

\* C21: when update_peers has run its broadcasts, every peer connected at the
\* time of the broadcast has expecting_pong set and last_ping_sent at the time
\* of the broadcast, and exactly one Ping, carrying the block height the sync
\* layer reports (0 when none is attached), was submitted for it.
C21_BroadcastPings ==
    [][last'.op = "update_peers" =>
        LET height == IF sync.attached THEN sync.current_block_height ELSE 0
            reqs == tick'.requests
        IN  \A a \in tick'.pinged :
              /\ a \in DOMAIN connected_peers'
              /\ connected_peers'[a].quality.expecting_pong
              /\ connected_peers'[a].quality.last_ping_sent = now
              /\ Cardinality({ i \in DOMAIN reqs :
                                 /\ reqs[i].direction = Outbound(a)
                                 /\ reqs[i].payload.name = "Ping" }) = 1
              /\ \E i \in DOMAIN reqs : reqs[i] = Message_new(Outbound(a), Ping(height))
    ]_vars

\* update_peers pinged two peers of a node whose chain has grown.
C21_Witness ==
    /\ last.op = "update_peers"
    /\ Cardinality(tick.pinged) = 2
    /\ sync.attached
    /\ sync.current_block_height > 0
    /\ \A a \in tick.pinged : connected_peers[a].quality.expecting_pong

\* --------------------------------- claims about the dispatcher (SpecDispatch)

\* The step is an iteration of the dispatcher loop that took the oldest message
\* of the inbound channel and handled it.
Handles ==
    /\ inbound.queue # << >>
    /\ inbound'.queue = Tail(inbound.queue)
    /\ effects'.message = Head(inbound.queue)

Membership == <<connecting_peers, DOMAIN connected_peers, DOMAIN disconnected_peers>>

\* C22: on a bootnode a message that neither carries GetPeers nor has direction
\* Internal is dropped: the handler returns Ok, the peer book keeps every
\* record as it was (last_seen included), the channels stay, nothing is
\* submitted to the outbound router and nothing is called on consensus; a
\* GetPeers of a peer is answered.
C22_BootnodeDrops ==
    [][Handles /\ is_bootnode =>
        LET message == Head(inbound.queue)
        IN  /\ ~(message.payload.name = "GetPeers" \/ message.direction = Internal) =>
                 /\ UNCHANGED <<book_vars, channels, topology>>
                 /\ effects'.ret = "Ok"
                 /\ effects'.out = << >>
            /\ message.payload.name = "GetPeers" /\ message.direction.kind = "Inbound" =>
                 /\ Len(effects'.out) = 1
                 /\ effects'.out[1].op = "send_request"
                 /\ effects'.out[1].payload.name = "Peers"
    ]_vars

\* A bootnode dropped the Pong of a connected peer without registering it.
C22_Witness ==
    /\ is_bootnode
    /\ effects.message = Message_new(Inbound(2), Payload("Pong", None, {}))
    /\ 2 \in DOMAIN connected_peers
    /\ connected_peers[2].quality.num_messages_received = 0
    /\ connected_peers[2].quality.failures = 0
    /\ effects.out = << >>

\* C23 as stated: on every node, bootnode or not, with or without consensus, a
\* handled Ping of a peer has a Pong addressed to that peer as the first thing
\* the handler submits or calls.
C23_PingAlwaysPonged ==
    [][Handles /\ Head(inbound.queue).payload.name = "Ping"
               /\ Head(inbound.queue).direction.kind = "Inbound" =>
        /\ effects'.out # << >>
        /\ effects'.out[1] = Sent(Message_new(Outbound(Head(inbound.queue).direction.addr),
                                              Payload("Pong", None, {})))
    ]_vars

\* C23: on a node that is not a bootnode, with or without consensus, a handled
\* Ping of a peer has a Pong addressed to that peer as the first thing the
\* handler submits or calls, and exactly one Pong is submitted; on a bootnode
\* the Ping is dropped and nothing is submitted.
C23_PingPongedUnlessBootnode ==
    [][Handles /\ Head(inbound.queue).payload.name = "Ping"
               /\ Head(inbound.queue).direction.kind = "Inbound" =>
        LET out == effects'.out
            pong == Sent(Message_new(Outbound(Head(inbound.queue).direction.addr),
                                     Payload("Pong", None, {})))
        IN  IF is_bootnode
            THEN out = << >>
            ELSE /\ out # << >>
                 /\ out[1] = pong
                 /\ \A i \in 2..Len(out) : out[i].op # "send_request"
                 /\ sync.attached <=> Len(out) > 1
    ]_vars

\* A node with consensus answered the Ping of a peer that is ahead and then
\* started to sync with it.
C23_Witness ==
    /\ ~is_bootnode
    /\ sync.attached
    /\ effects.message = Message_new(Inbound(2), Ping(MaxHeight))
    /\ Len(effects.out) = 3
    /\ effects.out[1].op = "send_request"
    /\ effects.out[3].op = "update_blocks"

\* C24: a ConnectingTo, ConnectedTo or Disconnect payload whose direction is not
\* Internal leaves the three collections of the peer book with the addresses
\* they had, and the channels as they were; with direction Internal,
\* ConnectingTo that succeeds puts the address in connecting_peers,
\* ConnectedTo puts the listener in connected_peers and Disconnect leaves the
\* address out of connecting_peers or connected_peers.
C24_MembershipOnlyInternal ==
    [][Handles /\ Head(inbound.queue).payload.name \in {"ConnectingTo", "ConnectedTo", "Disconnect"} =>
        LET message == Head(inbound.queue)
            a == message.payload.n
        IN  IF message.direction # Internal
            THEN /\ UNCHANGED Membership
                 /\ UNCHANGED channels
            ELSE CASE message.payload.name = "ConnectingTo" ->
                        IF effects'.ret = "Ok" THEN a \in connecting_peers'
                        ELSE UNCHANGED Membership
                   [] message.payload.name = "ConnectedTo" ->
                        message.payload.listener \in DOMAIN connected_peers'
                   [] OTHER ->
                        \/ a \in connecting_peers /\ a \notin connecting_peers'
                        \/ a \notin connecting_peers /\ a \notin DOMAIN connected_peers'
    ]_vars

\* A regular node handled a Disconnect that a connected peer sent about
\* another connected peer, and both are still connected.
C24_Witness ==
    /\ ~is_bootnode
    /\ effects.message = Message_new(Inbound(1), Payload("Disconnect", 2, {}))
    /\ effects.ret = "Ok"
    /\ {1, 2} \subseteq DOMAIN connected_peers

\* ------------------------------------- claims about peer lists (SpecGossip)

\* The connections of a topology as unordered pairs.
Edges(connections) == { {c[1], c[2]} : c \in connections }

\* The endpoint of edge e that is not s; s itself for the edge from s to s.
Other(e, s) == IF e = {s} THEN s ELSE CHOOSE x \in e : x # s

\* C25: when a regular node has handled the Peers list of a peer, every listed
\* address other than the node's own is in the state it was in if it was
\* connecting, connected or disconnected, and otherwise has a fresh record in
\* the disconnected map; the node's own address and the addresses not listed
\* are where they were; a node that tracks the topology has an edge from the
\* source to each listed address and no other edge at the source, and a node
\* that does not track it has recorded nothing.
C25_ProcessInboundPeers ==
    [][Handles /\ Head(inbound.queue).payload.name = "Peers"
               /\ Head(inbound.queue).direction.kind = "Inbound" =>
        LET source == Head(inbound.queue).direction.addr
            peers == Head(inbound.queue).payload.peers
            own == config.own_address
        IN  /\ \A a \in NodeAddr :
                 IF /\ a \in peers
                    /\ a # own
                    /\ a \notin connecting_peers
                    /\ a \notin DOMAIN connected_peers
                    /\ a \notin DOMAIN disconnected_peers
                 THEN /\ a \in DOMAIN disconnected_peers'
                      /\ IsFreshInfo(disconnected_peers'[a], a)
                      /\ a \notin connecting_peers'
                      /\ a \notin DOMAIN connected_peers'
                 ELSE /\ a \in connecting_peers' <=> a \in connecting_peers
                      /\ a \in DOMAIN connected_peers' <=> a \in DOMAIN connected_peers
                      /\ a \in DOMAIN disconnected_peers' <=> a \in DOMAIN disconnected_peers
                      /\ a \in DOMAIN disconnected_peers =>
                            disconnected_peers'[a] = disconnected_peers[a]
            /\ \A a \in peers \ {own} :
                 \/ a \in connecting_peers'
                 \/ a \in DOMAIN connected_peers'
                 \/ a \in DOMAIN disconnected_peers'
            /\ IF topology.tracked
               THEN /\ topology'.tracked
                    /\ Edges(topology'.connections) =
                          { e \in Edges(topology.connections) : source \notin e }
                          \cup { {source, a} : a \in peers }
               ELSE topology' = topology
    ]_vars

\* A node that tracks the topology handled a list naming itself, a connected
\* peer and an address it had not heard of.
C25_Witness ==
    /\ effects.message = Message_new(Inbound(2), Payload("Peers", None, {1, 2, OwnAddress}))
    /\ effects.ret = "Ok"
    /\ topology.tracked
    /\ 2 \in DOMAIN connected_peers
    /\ 1 \in DOMAIN disconnected_peers
    /\ IsFreshInfo(disconnected_peers[1], 1)
    /\ OwnAddress \notin DOMAIN disconnected_peers
    /\ Edges(topology.connections) = {{2, 1}, {2}, {2, OwnAddress}}

\* ------------------------- claims about the topology tracker (SpecTopology)

\* C26: for the addresses a and b of an inserted Connection((a, b)), the
\* connection equals Connection((b, a)) in both directions and the two feed
\* the same values to the hasher; when the set holds the connection in either
\* orientation the insert leaves the set as it was, and the set never holds
\* two connections of the same unordered pair.
C26_UndirectedConnections ==
    [][last'.op = "insert" =>
        LET c == <<last'.addr, last'.arg>>
            rev == <<last'.arg, last'.addr>>
        IN  /\ Connection_eq(c, rev)
            /\ Connection_eq(rev, c)
            /\ Connection_hash(c) = Connection_hash(rev)
            /\ (c \in topology.connections \/ rev \in topology.connections) =>
                  /\ topology'.connections = topology.connections
                  /\ last'.ret = "false"
            /\ Cardinality(topology'.connections) = Cardinality(Edges(topology'.connections))
    ]_vars

\* Connection((1, 2)) was inserted into a set that holds Connection((2, 1)),
\* and the set still holds two connections.
C26_Witness ==
    /\ last.op = "insert"
    /\ last.addr = 1
    /\ last.arg = 2
    /\ last.ret = "false"
    /\ <<2, 1>> \in topology.connections
    /\ <<1, 2>> \notin topology.connections
    /\ Cardinality(topology.connections) = 2

\* C27: update(source, peers) leaves the edges that are not at source, the
\* edges at source whose other endpoint is listed, and an edge from source to
\* every listed peer, and nothing else; the edges it removes are the edges at
\* source whose other endpoint is not listed; a connection that stays is
\* stored as it was, and no edge is stored twice.
C27_TopologyUpdate ==
    [][last'.op = "update" =>
        LET source == effects'.message.direction.addr
            peers == effects'.message.payload.peers
            old == Edges(topology.connections)
            new == Edges(topology'.connections)
        IN  /\ new = { e \in old : source \notin e }
                     \cup { e \in old : source \in e /\ Other(e, source) \in peers }
                     \cup { {source, p} : p \in peers }
            /\ old \ new = { e \in old : source \in e /\ Other(e, source) \notin peers }
            /\ \A c \in topology.connections :
                  {c[1], c[2]} \in new => c \in topology'.connections
            /\ Cardinality(topology'.connections) = Cardinality(new)
    ]_vars

\* After update(1, [2, 3]) and update(2, [1]), update(3, [2]) has removed the
\* edge between 1 and 3, added the edge between 3 and 2 and kept the edge
\* between 1 and 2 as it was stored.
C27_Witness ==
    /\ last.op = "update"
    /\ last.addr = 3
    /\ effects.message.payload.peers = {2}
    /\ topology.connections = { <<1, 2>>, <<3, 2>> }

\* C28 as stated: the density computed by NetworkMetrics::new is a number
\* between 0 and 1, and it is 0 for a network of at most one node.
C28_DensityWithinUnitInterval ==
    last.op = "NetworkMetrics_new" =>
        /\ metrics.density.kind = "finite"
        /\ metrics.density.num = 0 \/ ~metrics.density.neg
        /\ metrics.density.num <= metrics.density.den
        /\ metrics.node_count <= 1 => metrics.density.num = 0

\* ----------------------- claims about a settled neighbourhood (SpecQuality)

\* C30: an update_peers run of a regular node whose connected peers are all
\* healthy (rtt_ms at most 1500, fewer than 3 failures, seen within
\* MAX_PEER_INACTIVITY_SECS) and number between min_peers and max_peers
\* disconnects from no peer and starts no connection attempt: the connected
\* peers and their channels are the ones from before the run, so the node's
\* connected count is still its degree, and it asks no peer for more peers.
C30_SettledNeighbourhood ==
    [][/\ last'.op = "update_peers"
       /\ ~is_bootnode
       /\ Cardinality(DOMAIN connected_peers) >= config.min_peers
       /\ Cardinality(DOMAIN connected_peers) <= config.max_peers
       /\ \A a \in DOMAIN connected_peers :
             /\ connected_peers[a].quality.rtt_ms <= 1500
             /\ connected_peers[a].quality.failures < 3
             /\ (now - connected_peers[a].quality.last_seen) * SecsPerReading
                    <= MAX_PEER_INACTIVITY_SECS
       =>
       /\ DOMAIN connected_peers' = DOMAIN connected_peers
       /\ channels' = channels
       /\ connecting_peers' = connecting_peers
       /\ disconnected_peers' = disconnected_peers
       /\ dials' = dials
       /\ tick'.number_of_connected_peers = Cardinality(DOMAIN connected_peers)
       /\ tick'.dropped = {}
       /\ tick'.bootnode_dials = {} /\ tick'.peer_dials = {}
       /\ \A i \in DOMAIN tick'.requests : tick'.requests[i].payload.name = "Ping"
    ]_vars

\* A regular node with two healthy peers, as inside a line or on a ring, ran
\* update_peers: it kept both, pinged both and started nothing.
C30_Witness ==
    /\ last.op = "update_peers"
    /\ ~is_bootnode
    /\ DOMAIN connected_peers = Addr
    /\ tick.kept = Addr
    /\ tick.pinged = Addr
    /\ tick.dropped = {}
    /\ tick.peer_dials = {} /\ tick.bootnode_dials = {}
    /\ Len(tick.requests) = 2

\* ------------------------------ claims about the dispatcher loop (SpecServe)

C39_RemainingWithinExpected ==
    \A a \in DOMAIN connected_peers :
        U32_leq(connected_peers[a].quality.remaining_sync_blocks,
                U32_from(sync_hist[a].expected))

\* ------------------------------ claims about the connection gauges (SpecGauges)

\* C40 as stated: starting from an empty peer book with all gauges at 0,
\* after any sequence of add_peer, set_connecting, set_connected,
\* set_disconnected and remove_peer the three gauges equal the sizes of the
\* connecting set, the connected map and the disconnected map.
C40_GaugesMatchSizes ==
    /\ gauges.connecting = Cardinality(connecting_peers)
    /\ gauges.connected = Cardinality(DOMAIN connected_peers)
    /\ gauges.disconnected = Cardinality(DOMAIN disconnected_peers)

\* ------------------------- claims about the outbound channels (SpecNode)

\* C38: whenever no Node::set_connected or disconnect_from_peer call is in
\* progress, every address with an outbound channel is a connected peer.
C38_ChannelsOfConnectedPeers ==
    (\A p \in Proc : procs[p].pc \in {"idle", "done"})
        => DOMAIN channels \subseteq DOMAIN connected_peers

\* Every call has returned, one Node::set_connected call with
\* PeerIsDisconnected because its peer was disconnected under it, and a later
\* connection of that peer holds the only channel.
C38_Witness ==
    /\ \A p \in Proc : procs[p].pc = "done"
    /\ \E p \in Proc : procs[p].ret = "PeerIsDisconnected"
    /\ \E p \in Proc : procs[p].op = "disconnect_from_peer" /\ procs[p].ret = "true"
    /\ DOMAIN channels = {1}
    /\ DOMAIN connected_peers = {1}

\* --------------------- claims about ended connection attempts (SpecMaint)

\* C36 as stated: once initiate_connection(remote) has returned
\* HandshakeTimeout, the handshake task of that attempt no longer marks remote
\* as connected and registers no outbound channel for it.
C36_TimedOutAttemptIsOver ==
    [][\A a \in NodeAddr, kind \in DialKind :
          /\ dials[a][kind].pc = "handshake"
          /\ dials[a][kind].timed_out
          /\ dials'[a][kind].pc = "idle"
          =>
          /\ a \in DOMAIN connected_peers' => a \in DOMAIN connected_peers
          /\ a \in DOMAIN channels' => a \in DOMAIN channels
    ]_vars

\* ------------------ claims about the connecting set over time (SpecAttempts)

\* The attempts for address a have all returned to their callers.
AttemptsOver(a) ==
    \A kind \in DialKind : dials[a][kind].pc # "handshake" \/ dials[a][kind].timed_out

\* C35 as stated: an address that initiate_connection added to the connecting
\* set leaves it once the attempt has ended, however it ended.
C35_ConnectingEventuallyCleared ==
    \A a \in NodeAddr :
        (a \in connecting_peers /\ AttemptsOver(a)) ~> (a \notin connecting_peers)

\* --------------------- claims about the tasks of a connection (SpecShutdown)

\* C31: when set_disconnected moves a connected peer to disconnected, the
\* record's task list is emptied, every handle registered as abortable (the
\* reader) is aborted in that call, and every other handle (the writer) is not
\* aborted but handed to a detached task, which awaits it from then on while
\* the call returns with the writer in the state it was in; the detached task
\* waits no longer than 5 seconds, ending earlier only when the writer has
\* exited and otherwise at 5 seconds with the writer left running.
C31_AbortReaderAwaitWriter ==
    [][/\ \A a \in Addr :
            last'.op = "disconnect_from_peer" /\ last'.addr = a /\ last'.ret = "true"
            =>
            /\ a \in DOMAIN connected_peers
            /\ disconnected_peers'[a].tasks = << >>
            /\ \A i \in DOMAIN connected_peers[a].tasks :
                  LET e == connected_peers[a].tasks[i]
                  IN  IF e.abortable
                      THEN /\ e.kind = "reader"
                           /\ handles'[a].reader = "aborted"
                      ELSE /\ e.kind = "writer"
                           /\ handles'[a].writer = handles[a].writer
                           /\ handles'[a].waiter = "waiting"
                           /\ handles'[a].waited = 0
       /\ \A a \in Addr :
            /\ handles[a].waiter = "waiting" => handles[a].waited <= GraceSecs
            /\ handles[a].waiter = "waiting" /\ handles'[a].waiter # "waiting"
               => \/ handles'[a].waiter = "joined" /\ handles[a].writer = "exited"
                  \/ /\ handles'[a].waiter = "timed_out"
                     /\ handles[a].waited = GraceSecs
                     /\ handles'[a].writer = "running"
      ]_vars

\* A peer was disconnected while its writer was still running: the call has
\* returned, the reader is aborted, and the detached task has been waiting
\* for the writer for 3 seconds.
C31_Witness ==
    \E a \in Addr :
        /\ a \in DOMAIN disconnected_peers
        /\ disconnected_peers[a].tasks = << >>
        /\ handles[a].reader = "aborted"
        /\ handles[a].writer = "running"
        /\ handles[a].waiter = "waiting"
        /\ handles[a].waited = 3

\* ------------------ claims about concurrent PeerBook operations (SpecLocks)

Rank(m) == CASE m = "disconnected" -> 1 [] m = "connecting" -> 2 [] m = "connected" -> 3

C33_EveryOperationReturns ==
    /\ \A p \in Lockers : (procs[p].pc # "idle") ~> (procs[p].pc = "done")
    /\ [](\A p \in Lockers :
            procs[p].pc \notin {"idle", "done"} => \E q \in Lockers : ENABLED book_step(q))

\* A remove_peer has taken the record out of connected_peers and not yet put
\* it into disconnected_peers; a sending_ping waits for the guard of
\* connected_peers, and no guard is free for it.
C33_Witness ==
    \E p \in Lockers, q \in Lockers :
        /\ procs[p].op = "remove_peer"
        /\ procs[p].pc = "P_drain"
        /\ procs[q].op = "sending_ping"
        /\ procs[q].pc = "Q_clone"
        /\ ~Granted(q)
        /\ ~ENABLED book_step(q)

\* C34: once every one of the concurrent add_peer, set_connected and
\* set_disconnected calls for one address has returned, that address is not
\* in both the connected and the disconnected map.
C34_NeverConnectedAndDisconnected ==
    \A a \in Addr :
        (\A p \in Proc :
            \/ procs[p].pc = "idle"
            \/ /\ procs[p].pc = "done"
               /\ procs[p].op \in {"add_peer", "set_connected", "set_disconnected"}
               /\ procs[p].addr = a
               /\ procs[p].lst = None)
        => a \notin DOMAIN connected_peers \cap DOMAIN disconnected_peers

\* --------------- claims about concurrent initiate_connection (SpecConnect)

\* C37: while initiate_connection calls run concurrently and nobody connects
\* to the node, the number of connected peers plus the number of connecting
\* peers is at most max_peers.
C37_WithinMaxPeers ==
    Cardinality(DOMAIN connected_peers) + Cardinality(connecting_peers) <= config.max_peers

====
